---- MODULE Spec2Model ----
(***************************************************************************)
(* Model of the EKSCluster reconciler (pkg/controller/compute/eks.go) and  *)
(* of the attribute referencers of apis/compute/v1alpha2/types.go.         *)
(*                                                                         *)
(* One EKSCluster object lives in the API server (obj).  The controller    *)
(* has one worker, so the Reconcile passes on the object run one after     *)
(* the other.  A pass is a sequence of steps, one for each request it      *)
(* sends to the API server or to the provider together with the code that  *)
(* follows the request up to the next one; the user and the provider act   *)
(* between the steps.  The API server rejects the write of a pass whose    *)
(* copy of the object is outdated (optimistic concurrency on               *)
(* resourceVersion) or whose object is gone.                               *)
(***************************************************************************)
EXTENDS Integers, Sequences, FiniteSets, TLC

VARIABLES
    obj,        \* the EKSCluster as persisted in the API server
    objExists,  \* FALSE once the API server has removed the object
    cluster,    \* provider side: status of the EKS cluster named eks-<UID>
    stack,      \* provider side: status of the worker CloudFormation stack
    nClusters,  \* number of external clusters ever created
    nStacks,    \* number of worker stacks ever created
    passes,     \* per worker: the pass in flight, its position (pc) and
                \* its in-memory copy of the object
    last,       \* record of the pass that ended in the last step
    input       \* arguments of the operation a single-operation
                \* specification applies, the fake provider client among
                \* them; NoInput under the others

vars == <<obj, objExists, cluster, stack, nClusters, nStacks, passes, last,
          input>>

NoInput == [kind |-> "none"]

-----------------------------------------------------------------------------
\* Bounds of the model.

MaxClusters == 2    \* external clusters that may ever be created
MaxStacks == 2      \* worker stacks that may ever be created
MaxIDs == 2         \* length of a list-valued reference field

\* The controller is built without options (eks.go 125-128): one worker.
Workers == {"w1"}

-----------------------------------------------------------------------------
\* Program constants.

finalizer == "finalizer.eks.compute.aws.crossplane.io"
clusterNamePrefix == "eks-"
aShortWait == 30
aLongWait == 60
errUpdateManagedStatus == "cannot update managed resource status"

ClusterStatusCreating == "CREATING"
ClusterStatusActive == "ACTIVE"

completedCFState == {"CREATE_COMPLETE", "UPDATE_COMPLETE"}

\* Failed states without the rollbacks.
failedCFState_withoutRollback ==
    {"CREATE_FAILED", "DELETE_COMPLETE", "DELETE_FAILED"}

failedCFState == {"CREATE_FAILED", "ROLLBACK_COMPLETE", "ROLLBACK_FAILED",
                  "DELETE_COMPLETE", "DELETE_FAILED"}

\* The UID of the object the passes work on and the external names derived
\* from it.  With several objects it is the UID of the one in obj.
UIDs == {"uid-1", "uid-2"}
UID == IF input.kind = "instances" THEN input.focus ELSE "uid-1"

\* A cluster name that is the same for every object.
ClusterNameOf_ignoresUID(uid) == <<clusterNamePrefix>>

ClusterNameOf(uid) == <<clusterNamePrefix, uid>>
EmptyName == <<>>

\* Identifier of the n-th worker stack the provider creates.
StackIDs == <<"stack-1", "stack-2", "stack-3", "stack-4">>

foregroundDeletion == "foregroundDeletion"

-----------------------------------------------------------------------------
\* Conditions (crossplane-runtime ConditionedStatus).

TypeReady == "Ready"
TypeSynced == "Synced"
TypeReferencesResolved == "ReferencesResolved"

Condition(t, s, r, m) == [Type |-> t, Status |-> s, Reason |-> r, Message |-> m]

Creating == Condition(TypeReady, "False", "Creating", <<>>)
Deleting == Condition(TypeReady, "False", "Deleting", <<>>)
Available == Condition(TypeReady, "True", "Available", <<>>)
ReconcileError(err) == Condition(TypeSynced, "False", "ReconcileError", err)
ReconcileSuccess == Condition(TypeSynced, "True", "ReconcileSuccess", <<>>)
ReferenceResolutionBlocked(err) ==
    Condition(TypeReferencesResolved, "False", "ReferenceResolutionBlocked", err)
ReferenceResolutionSuccess ==
    Condition(TypeReferencesResolved, "True", "ReferenceResolutionSuccess", <<>>)

\* SetConditions for one condition: replace the condition of the same
\* type, append when the type is new.
SetCondition(conds, new) ==
    IF \E i \in DOMAIN conds : conds[i].Type = new.Type
    THEN [i \in DOMAIN conds |->
            IF conds[i].Type # new.Type THEN conds[i] ELSE new]
    ELSE Append(conds, new)

RECURSIVE SetConditions(_, _)
SetConditions(conds, news) ==
    IF news = <<>> THEN conds
    ELSE SetConditions(SetCondition(conds, Head(news)), Tail(news))

\* IsConditionTrue(GetCondition(t)).
IsConditionTrue(conds, t) ==
    \E i \in DOMAIN conds : conds[i].Type = t /\ conds[i].Status = "True"

-----------------------------------------------------------------------------
\* The EKSCluster object.

RefOrder == <<"roleARNRef", "vpcIdRef", "subnetIdRefs", "securityGroupIdRefs",
              "clusterControlPlaneSecurityGroupRef">>

\* The sets of references a spec is authored with.
RefConfigs == {{}, {"vpcIdRef", "subnetIdRefs"},
               {"roleARNRef", "securityGroupIdRefs",
                "clusterControlPlaneSecurityGroupRef"}}

ReclaimPolicies == {"Delete", "Retain"}

NewEKSCluster(refs, reclaim) ==
    [ refs |-> refs,
      ReclaimPolicy |-> reclaim,
      DeletionTimestamp |-> FALSE,
      Finalizers |-> {},
      VPCID |-> "",
      RoleARN |-> "",
      SubnetIDs |-> <<>>,
      SecurityGroupIDs |-> <<>>,
      ClusterControlPlaneSecurityGroup |-> "",
      State |-> "",
      ClusterName |-> EmptyName,
      ClusterVersion |-> "",
      Endpoint |-> "",
      CloudFormationStackID |-> "",
      BindingPhase |-> "",
      Conditions |-> <<>> ]

\* The reference-filled part of the spec.
RefFields(o) == <<o.VPCID, o.RoleARN, o.SubnetIDs, o.SecurityGroupIDs,
                  o.ClusterControlPlaneSecurityGroup>>

RefStatuses == {"NotFound", "NotReady", "Ready"}

\* The identifier a Ready target carries in its Status.
TargetID(ref) ==
    CASE ref = "roleARNRef" -> "arn:role"
      [] ref = "vpcIdRef" -> "vpc-1"
      [] ref = "subnetIdRefs" -> "subnet-1"
      [] ref = "securityGroupIdRefs" -> "sg-1"
      [] ref = "clusterControlPlaneSecurityGroupRef" -> "sg-2"

\* An Assign that also drops the reference it resolved from the spec.
Assign_clearsReference(o, ref, value) ==
    CASE ref = "vpcIdRef" -> [o EXCEPT !.VPCID = value, !.refs = @ \ {ref}]
      [] ref = "roleARNRef" -> [o EXCEPT !.RoleARN = value, !.refs = @ \ {ref}]
      [] ref = "subnetIdRefs" ->
            [o EXCEPT !.SubnetIDs = Append(@, value), !.refs = @ \ {ref}]
      [] ref = "securityGroupIdRefs" ->
            [o EXCEPT !.SecurityGroupIDs = Append(@, value),
                      !.refs = @ \ {ref}]
      [] ref = "clusterControlPlaneSecurityGroupRef" ->
            [o EXCEPT !.ClusterControlPlaneSecurityGroup = value,
                      !.refs = @ \ {ref}]

\* The Assign method of each referencer of the EKSCluster.
Assign(o, ref, value) ==
    CASE ref = "vpcIdRef" -> [o EXCEPT !.VPCID = value]
      [] ref = "roleARNRef" -> [o EXCEPT !.RoleARN = value]
      [] ref = "subnetIdRefs" -> [o EXCEPT !.SubnetIDs = Append(@, value)]
      [] ref = "securityGroupIdRefs" ->
            [o EXCEPT !.SecurityGroupIDs = Append(@, value)]
      [] ref = "clusterControlPlaneSecurityGroupRef" ->
            [o EXCEPT !.ClusterControlPlaneSecurityGroup = value]

-----------------------------------------------------------------------------
\* Failures the environment can inject into the step of a pass.  Provider
\* and API calls not named in the chosen set succeed or fail as the state
\* of the provider and of the API server decides.
\*   create_exists_nil: client.Create reports already-exists and returns no
\*   cluster with the error.

Completed == {"CREATE_COMPLETE", "UPDATE_COMPLETE"}

\* The failures that can make a difference to the step the pass p is at:
\* none, or one of the calls of the step.
FaultSets(p) ==
    {{}} \cup
    CASE p.pc = "idle" -> {{"connect"}}
      [] p.pc = "resolve" ->
            IF p.inst.refs # {} THEN {{"refget"}, {"refbuild"}, {"refupdate"}}
            ELSE {}
      [] p.pc = "create" ->
            {{"create_bad"}, {"create_other"}} \cup
            (IF cluster # "absent" THEN {{"create_exists_nil"}} ELSE {})
      [] p.pc = "sync" -> {{"get"}}
      [] p.pc = "createWorkers" -> {{"createworkers"}}
      [] p.pc = "syncWorkers" ->
            {{"getworkers"}} \cup
            (IF stack \in Completed THEN {{"awsauth"}, {"secret"}} ELSE {})
      [] p.pc = "delete" ->
            IF p.inst.ReclaimPolicy = "Delete" THEN {{"delcluster"}} ELSE {}
      [] p.pc = "deleteWorkers" ->
            IF p.inst.CloudFormationStackID # "" THEN {{"delworkers"}} ELSE {}
      [] p.pc = "update" -> {{"update"}}

\* The statuses the reference targets can show to a pass that reads them:
\* all Ready, or one of them missing or not Ready.
StatusChoices(p) ==
    IF p.pc # "resolve"
    THEN {[r \in p.inst.refs |-> "Ready"]}
    ELSE {[r \in p.inst.refs |-> "Ready"]} \cup
         {[r \in p.inst.refs |-> IF r = b THEN st ELSE "Ready"] :
            b \in p.inst.refs, st \in RefStatuses \ {"Ready"}}

\* Error values are message token sequences.
errBoom(what) == <<what, "boom">>
errNotFound == <<"NotFound">>
errAlreadyExists == <<"AlreadyExists">>
errBadRequest == <<"BadRequest">>
errReferencesAccess == <<"referencesAccessErr">>
errConflict == <<"Conflict">>
errNil == <<>>

Wrap(err, msg) == IF err = errNil THEN errNil ELSE <<msg>> \o err

\* strings.Join(parts, sep) on token sequences.
RECURSIVE Join(_, _)
Join(parts, sep) ==
    IF parts = <<>> THEN <<>>
    ELSE IF Len(parts) = 1 THEN parts[1]
    ELSE parts[1] \o <<sep>> \o Join(Tail(parts), sep)

\* reconcile.Result
Result(requeue, after) == [Requeue |-> requeue, RequeueAfter |-> after]

-----------------------------------------------------------------------------
\* The state of a pass: its position pc, its in-memory instance, what it
\* read when it started, the calls it has issued, what it returns and
\* whether it ends in r.Update.  stale says that the object was changed
\* since the pass read or wrote it.  A step works on the pass with the
\* provider, the failures F of the step, the statuses the reference targets
\* show and fresh, the API server accepting a write, loaded into it.

NoStatuses == <<>>

NewPass(inst) ==
    [ pc |-> "idle", stale |-> FALSE,
      inst |-> inst,
      refFields0 |-> RefFields(inst),
      stackID0 |-> inst.CloudFormationStackID,
      clusterName0 |-> inst.ClusterName,
      resolved0 |-> IsConditionTrue(inst.Conditions, TypeReferencesResolved),
      erred0 |-> \E i \in DOMAIN inst.Conditions :
                    inst.Conditions[i].Reason = "ReconcileError",
      cluster |-> "absent", stack |-> "absent",
      nClusters |-> 0, nStacks |-> 0,
      F |-> {}, statuses |-> NoStatuses, fresh |-> FALSE,
      seenStatuses |-> NoStatuses,
      calls |-> <<>>,
      branch |-> "none",
      result |-> Result(FALSE, 0),
      update |-> FALSE,
      midWrote |-> FALSE, midInst |-> inst,
      rerr |-> <<>>,
      cerr |-> <<>>, createdNil |-> FALSE,
      createErr |-> <<>>, createName |-> EmptyName,
      seenCluster |-> "", seenStack |-> "",
      set |-> <<>>, failed |-> {}, notfound |-> {},
      derrs |-> <<>>,
      panic |-> FALSE ]

\* No pass in flight.
Idle == NewPass(NewEKSCluster({}, "Delete"))

\* The pass p at the start of a step.
Load(p, F, statuses) ==
    [p EXCEPT !.cluster = cluster, !.stack = stack,
              !.nClusters = nClusters, !.nStacks = nStacks,
              !.F = F, !.statuses = statuses,
              !.fresh = objExists /\ ~p.stale]

\* The pass c between two steps, at position pc.
Store(c, pc) ==
    [c EXCEPT !.pc = pc,
              !.cluster = "absent", !.stack = "absent",
              !.nClusters = 0, !.nStacks = 0,
              !.F = {}, !.statuses = NoStatuses, !.fresh = FALSE,
              !.cerr = <<>>]

Call(c, name) == [c EXCEPT !.calls = Append(@, name)]

Called(c, name) == \E i \in DOMAIN c.calls : c.calls[i] = name

\* instance.Status.SetConditions(cond); the pass keeps the reasons it set.
Set(c, cond) ==
    [c EXCEPT !.inst.Conditions = SetCondition(@, cond),
              !.set = Append(@, cond.Reason)]

\* The call named last returned an error / a not-found the pass tolerates.
Failed(c, name) == [c EXCEPT !.failed = @ \cup {name}]
NotFound(c, name) == [c EXCEPT !.notfound = @ \cup {name}]

\* fail that does not ask for a requeue.
fail_noRequeue(c, err) ==
    [Set(c, ReconcileError(err)) EXCEPT !.result = Result(FALSE, 0),
                                        !.update = TRUE]

\* Reconciler.fail
fail(c, err) ==
    [Set(c, ReconcileError(err)) EXCEPT !.result = Result(FALSE, aShortWait),
                                        !.update = TRUE]

-----------------------------------------------------------------------------
\* Reference resolution (ManagedReferenceResolver.ResolveReferences): read
\* the status of every referencer, stop when one target is missing or not
\* Ready, otherwise Build and Assign each in turn and persist the object:
\* midWrote says that the API server took the write, midInst is what it
\* took.

Referencers(o) == SelectSeq(RefOrder, LAMBDA r : r \in o.refs)

RECURSIVE AssignAll(_, _)
AssignAll(o, refs) ==
    IF refs = <<>> THEN o
    ELSE AssignAll(Assign(o, Head(refs), TargetID(Head(refs))), Tail(refs))

AllButLast(s) == IF s = <<>> THEN <<>> ELSE SubSeq(s, 1, Len(s) - 1)

\* Returns the pass with field rerr set to the error of the resolution.
ResolveReferences(c0) ==
    LET refs == Referencers(c0.inst)
        c == [Call(c0, "ResolveReferences") EXCEPT
                !.seenStatuses = IF refs = <<>> THEN NoStatuses
                                 ELSE c0.statuses]
    IN  IF refs = <<>> THEN [c EXCEPT !.rerr = errNil]
        ELSE IF "refget" \in c.F
        THEN [Failed(Call(c, "GetStatus"), "GetStatus") EXCEPT
                !.rerr = errBoom("GetStatus")]
        ELSE IF \E r \in c.inst.refs : c.statuses[r] # "Ready"
        THEN [Call(c, "GetStatus") EXCEPT !.rerr = errReferencesAccess]
        ELSE IF "refbuild" \in c.F
        THEN [Failed(Call(Call(c, "GetStatus"), "Build"), "Build") EXCEPT
                !.inst = AssignAll(@, AllButLast(refs)),
                !.rerr = errBoom("Build")]
        ELSE LET a == [Call(Call(Call(c, "GetStatus"), "Build"), "Assign")
                        EXCEPT !.inst = AssignAll(@, refs)]
             IN  IF a.fresh /\ "refupdate" \notin a.F
                 THEN [a EXCEPT !.midWrote = TRUE, !.midInst = a.inst,
                                !.rerr = errNil]
                 ELSE [Failed(a, "ResolveReferences.Update") EXCEPT
                        !.rerr = errBoom("Update")]

-----------------------------------------------------------------------------
\* The provider as the eks client presents it.  Each operation leaves the
\* error it returns in cerr.

\* Status of the stack a stack ID names: the current stack's status, or
\* absent when the ID names no stack the provider knows.
CurrentStackID(c) == IF c.nStacks = 0 THEN "" ELSE StackIDs[c.nStacks]

StackStatusOf(c, id) ==
    IF id # "" /\ id = CurrentStackID(c) THEN c.stack ELSE "absent"

\* The reason the provider gives with the status of a stack.
WorkerReason(status) ==
    IF status \in {"CREATE_COMPLETE", "UPDATE_COMPLETE"} THEN ""
    ELSE "reason of the stack status"

\* A stack name is free when no stack of that name exists or the last one
\* finished deleting.
StackNameFree(c) == c.stack \in {"absent", "DELETE_COMPLETE"}

IsErrorAlreadyExists(err) == err = errAlreadyExists
IsErrorBadRequest(err) == err = errBadRequest
IsErrorNotFound(err) == err = errNotFound

\* client.Create(name, spec): createdNil says that no cluster comes back.
\* None comes back with an error, except that an already-exists error may
\* bring the existing cluster.
clientCreate(c0, name) ==
    LET c == [Call(c0, "Create") EXCEPT !.createName = name]
        err == IF "create_bad" \in c.F THEN errBadRequest
               ELSE IF "create_other" \in c.F THEN errBoom("Create")
               ELSE IF c.cluster # "absent" THEN errAlreadyExists
               ELSE errNil
    IN  IF err = errNil
        THEN [c EXCEPT !.cluster = ClusterStatusCreating,
                       !.nClusters = @ + 1,
                       !.cerr = errNil, !.createdNil = FALSE]
        ELSE [c EXCEPT !.cerr = err, !.createErr = err,
                       !.createdNil = ~IsErrorAlreadyExists(err)
                                      \/ "create_exists_nil" \in c.F]

\* client.Get(name)
clientGet(c0, name) ==
    LET c == Call(c0, "Get")
    IN  IF "get" \in c.F THEN [c EXCEPT !.cerr = errBoom("Get")]
        ELSE IF c.cluster = "absent" \/ name # ClusterNameOf(UID)
        THEN [c EXCEPT !.cerr = errNotFound]
        ELSE [c EXCEPT !.cerr = errNil, !.seenCluster = c.cluster]

\* client.CreateWorkerNodes(name, version, spec)
clientCreateWorkerNodes(c0, name) ==
    LET c == Call(c0, "CreateWorkerNodes")
    IN  IF "createworkers" \in c.F
        THEN [c EXCEPT !.cerr = errBoom("CreateWorkerNodes")]
        ELSE IF ~StackNameFree(c) THEN [c EXCEPT !.cerr = errAlreadyExists]
        ELSE [c EXCEPT !.stack = "CREATE_IN_PROGRESS",
                       !.nStacks = @ + 1,
                       !.cerr = errNil]

\* client.GetWorkerNodes(stackID)
clientGetWorkerNodes(c0, stackID) ==
    LET c == Call(c0, "GetWorkerNodes")
        st == StackStatusOf(c, stackID)
    IN  IF "getworkers" \in c.F
        THEN [c EXCEPT !.cerr = errBoom("GetWorkerNodes")]
        ELSE IF st = "absent" THEN [c EXCEPT !.cerr = errNotFound]
        ELSE [c EXCEPT !.cerr = errNil, !.seenStack = st]

\* client.Delete(name)
clientDelete(c0, name) ==
    LET c == Call(c0, "Delete")
    IN  IF "delcluster" \in c.F THEN [c EXCEPT !.cerr = errBoom("Delete")]
        ELSE IF c.cluster = "absent" \/ name # ClusterNameOf(UID)
        THEN [c EXCEPT !.cerr = errNotFound]
        ELSE [c EXCEPT !.cluster = "DELETING", !.cerr = errNil]

\* client.DeleteWorkerNodes(stackID)
clientDeleteWorkerNodes(c0, stackID) ==
    LET c == Call(c0, "DeleteWorkerNodes")
        st == StackStatusOf(c, stackID)
    IN  IF "delworkers" \in c.F
        THEN [c EXCEPT !.cerr = errBoom("DeleteWorkerNodes")]
        ELSE IF st = "absent" THEN [c EXCEPT !.cerr = errNotFound]
        ELSE IF st = "DELETE_COMPLETE" THEN [c EXCEPT !.cerr = errNil]
        ELSE [c EXCEPT !.stack = "DELETE_IN_PROGRESS", !.cerr = errNil]

\* Reconciler._awsauth and Reconciler._secret: they succeed or fail.
awsauth(c0) ==
    LET c == Call(c0, "awsauth")
    IN  [c EXCEPT !.cerr = IF "awsauth" \in c.F THEN errBoom("awsauth")
                           ELSE errNil]

secret(c0) ==
    LET c == Call(c0, "secret")
    IN  [c EXCEPT !.cerr = IF "secret" \in c.F THEN errBoom("secret")
                           ELSE errNil]

-----------------------------------------------------------------------------
\* Reconciler._create

\* _create that treats a bad request like any other error.
create_badRequestRequeues(c0) ==
    LET clusterName == ClusterNameOf(UID)
        c == clientCreate([Set(c0, Creating) EXCEPT !.branch = "create"],
                          clusterName)
    IN  IF c.cerr # errNil /\ ~IsErrorAlreadyExists(c.cerr)
        THEN fail(Failed(c, "Create"), c.cerr)
        ELSE IF c.createdNil
        THEN [c EXCEPT !.panic = TRUE]
        ELSE [Set([c EXCEPT !.inst.ClusterVersion = "v1",
                            !.inst.State = ClusterStatusCreating,
                            !.inst.ClusterName = clusterName],
                  ReconcileSuccess)
                EXCEPT !.result = Result(FALSE, aShortWait),
                       !.update = TRUE]

_create(c0) ==
    LET clusterName == ClusterNameOf(UID)
        c == clientCreate([Set(c0, Creating) EXCEPT !.branch = "create"],
                          clusterName)
    IN  IF c.cerr # errNil /\ ~IsErrorAlreadyExists(c.cerr)
        THEN IF IsErrorBadRequest(c.cerr)
             THEN [Set(Failed(c, "Create"), ReconcileError(c.cerr)) EXCEPT
                        !.result = Result(FALSE, 0),
                        !.update = TRUE]
             ELSE fail(Failed(c, "Create"), c.cerr)
        ELSE IF c.createdNil
        THEN \* createdCluster.Version dereferences nil
             [c EXCEPT !.panic = TRUE]
        ELSE [Set([c EXCEPT !.inst.ClusterVersion = "v1",
                            !.inst.State = ClusterStatusCreating,
                            !.inst.ClusterName = clusterName],
                  ReconcileSuccess)
                EXCEPT !.result = Result(FALSE, aShortWait),
                       !.update = TRUE]

-----------------------------------------------------------------------------
\* Reconciler._sync

SetBindable(o) ==
    IF o.BindingPhase = "Bound" THEN o ELSE [o EXCEPT !.BindingPhase = "Unbound"]

\* The end of _sync: the resource is available.
markAvailable(c) ==
    [Set(Set([c EXCEPT !.inst.Endpoint = "endpoint",
                       !.inst.State = ClusterStatusActive],
             Available), ReconcileSuccess)
        EXCEPT !.inst = SetBindable(@),
               !.result = Result(FALSE, aLongWait),
               !.update = TRUE]

\* syncWorkers that goes on when the aws-auth step failed.
syncWorkers_ignoresAuthError(c0) ==
    LET c == clientGetWorkerNodes(c0, c0.inst.CloudFormationStackID)
    IN  IF c.cerr # errNil THEN fail(Failed(c, "GetWorkerNodes"), c.cerr)
        ELSE IF c.seenStack \in failedCFState
        THEN fail(c, <<"clusterworker stack failed with status", c.seenStack,
                       "and reason", WorkerReason(c.seenStack)>>)
        ELSE IF c.seenStack \notin completedCFState
        THEN [Set(c, ReconcileSuccess) EXCEPT
                    !.result = Result(FALSE, aShortWait),
                    !.update = TRUE]
        ELSE LET a0 == awsauth(c)
                 a == IF a0.cerr # errNil THEN Failed(a0, "awsauth") ELSE a0
                 p == secret(a)
             IN  IF p.cerr # errNil THEN fail(Failed(p, "secret"), p.cerr)
                 ELSE markAvailable(p)

\* The part of _sync that runs with a recorded stack ID (eks.go 314-345).
syncWorkers(c0) ==
    LET c == clientGetWorkerNodes(c0, c0.inst.CloudFormationStackID)
    IN  IF c.cerr # errNil THEN fail(Failed(c, "GetWorkerNodes"), c.cerr)
        ELSE IF c.seenStack \in failedCFState
        THEN fail(c, <<"clusterworker stack failed with status", c.seenStack,
                       "and reason", WorkerReason(c.seenStack)>>)
        ELSE IF c.seenStack \notin completedCFState
        THEN [Set(c, ReconcileSuccess) EXCEPT
                    !.result = Result(FALSE, aShortWait),
                    !.update = TRUE]
        ELSE LET a == awsauth(c)
             IN  IF a.cerr # errNil
                 THEN fail(Failed(a, "awsauth"),
                           Wrap(a.cerr, "failed to set auth map on eks"))
                 ELSE LET p == secret(a)
                      IN  IF p.cerr # errNil
                          THEN fail(Failed(p, "secret"), p.cerr)
                          ELSE markAvailable(p)

\* A worker creation that does not record the stack ID.
createWorkers_forgetsStackID(c) ==
    LET w == clientCreateWorkerNodes(c, c.inst.ClusterName)
    IN  IF w.cerr # errNil
        THEN fail(Failed(w, "CreateWorkerNodes"), w.cerr)
        ELSE [Set(w, ReconcileSuccess)
                EXCEPT !.result = Result(FALSE, aShortWait),
                       !.update = TRUE]

\* The part of _sync that runs without a recorded stack ID (eks.go 300-311).
createWorkers(c) ==
    LET w == clientCreateWorkerNodes(c, c.inst.ClusterName)
    IN  IF w.cerr # errNil
        THEN fail(Failed(w, "CreateWorkerNodes"), w.cerr)
        ELSE [Set([w EXCEPT !.inst.CloudFormationStackID = CurrentStackID(w)],
                  ReconcileSuccess)
                EXCEPT !.result = Result(FALSE, aShortWait),
                       !.update = TRUE]

\* _sync that does not wait for the cluster to be ACTIVE.
sync_ignoresClusterStatus(c0) ==
    IF c0.pc = "createWorkers" THEN createWorkers(c0)
    ELSE IF c0.pc = "syncWorkers" THEN syncWorkers(c0)
    ELSE
    LET c == clientGet([c0 EXCEPT !.branch = "sync"], c0.inst.ClusterName)
    IN  IF c.cerr # errNil THEN fail(Failed(c, "Get"), c.cerr)
        ELSE IF c.inst.CloudFormationStackID = ""
        THEN [c EXCEPT !.pc = "createWorkers"]
        ELSE [c EXCEPT !.pc = "syncWorkers"]

\* The step of _sync the pass is at: client.Get with what follows it
\* (eks.go 287-298), then the creation of the workers or their poll.
_sync(c0) ==
    IF c0.pc = "createWorkers" THEN createWorkers(c0)
    ELSE IF c0.pc = "syncWorkers" THEN syncWorkers(c0)
    ELSE
    LET c == clientGet([c0 EXCEPT !.branch = "sync"], c0.inst.ClusterName)
    IN  IF c.cerr # errNil THEN fail(Failed(c, "Get"), c.cerr)
        ELSE IF c.seenCluster # ClusterStatusActive
        THEN [Set(c, ReconcileSuccess) EXCEPT
                    !.result = Result(FALSE, aShortWait),
                    !.pc = "done"]
        ELSE IF c.inst.CloudFormationStackID = ""
        THEN [c EXCEPT !.pc = "createWorkers"]
        ELSE [c EXCEPT !.pc = "syncWorkers"]

-----------------------------------------------------------------------------
\* Reconciler._delete

\* A RemoveFinalizer that removes nothing.
RemoveFinalizer_removesNothing(o, f) == o

RemoveFinalizer(o, f) == [o EXCEPT !.Finalizers = @ \ {f}]

\* An AddFinalizer that adds nothing.
AddFinalizer_addsNothing(o, f) == o

AddFinalizer(o, f) == [o EXCEPT !.Finalizers = @ \cup {f}]

\* Cluster deletion whose not-found error counts as a failure.
deleteMaster_notFoundFails(c0) ==
    LET c == clientDelete(c0, c0.inst.ClusterName)
    IN  IF c.cerr # errNil
        THEN [(IF IsErrorNotFound(c.cerr) THEN NotFound(c, "Delete")
               ELSE Failed(c, "Delete"))
                EXCEPT !.derrs = Append(@, <<"Master Delete Error:">> \o c.cerr)]
        ELSE c

\* The cluster deletion of _delete with the error it keeps (eks.go 372-374).
deleteMaster(c0) ==
    LET c == clientDelete(c0, c0.inst.ClusterName)
    IN  IF c.cerr # errNil /\ ~IsErrorNotFound(c.cerr)
        THEN [Failed(c, "Delete") EXCEPT
                !.derrs = Append(@, <<"Master Delete Error:">> \o c.cerr)]
        ELSE IF c.cerr # errNil THEN NotFound(c, "Delete")
        ELSE c

\* A worker deletion that forgets the stack ID once the stack is deleted.
deleteWorkers_clearsStackID(c0) ==
    IF c0.inst.CloudFormationStackID # ""
    THEN LET c == clientDeleteWorkerNodes(c0, c0.inst.CloudFormationStackID)
         IN  IF c.cerr # errNil /\ ~IsErrorNotFound(c.cerr)
             THEN [Failed(c, "DeleteWorkerNodes") EXCEPT
                    !.derrs = Append(@, <<"Worker Delete Error:">> \o c.cerr)]
             ELSE IF c.cerr # errNil THEN NotFound(c, "DeleteWorkerNodes")
             ELSE [c EXCEPT !.inst.CloudFormationStackID = ""]
    ELSE c0

\* The worker deletion of _delete with the error it keeps (eks.go 376-380).
deleteWorkers(c0) ==
    IF c0.inst.CloudFormationStackID # ""
    THEN LET c == clientDeleteWorkerNodes(c0, c0.inst.CloudFormationStackID)
         IN  IF c.cerr # errNil /\ ~IsErrorNotFound(c.cerr)
             THEN [Failed(c, "DeleteWorkerNodes") EXCEPT
                    !.derrs = Append(@, <<"Worker Delete Error:">> \o c.cerr)]
             ELSE IF c.cerr # errNil THEN NotFound(c, "DeleteWorkerNodes")
             ELSE c
    ELSE c0

\* An end of _delete that removes the finalizer whatever the deletions
\* returned.
finishDelete_alwaysRemovesFinalizer(c0) ==
    LET c == [c0 EXCEPT !.inst = RemoveFinalizer(@, finalizer)]
    IN  IF Len(c.derrs) > 0
        THEN fail(c, Join(c.derrs, ", "))
        ELSE [Set(c, ReconcileSuccess)
                EXCEPT !.result = Result(FALSE, 0),
                       !.update = TRUE]

\* The end of _delete: fail on the errors kept, else remove the finalizer
\* (eks.go 382-392).
finishDelete(c) ==
    IF Len(c.derrs) > 0
    THEN fail(c, Join(c.derrs, ", "))
    ELSE [Set([c EXCEPT !.inst = RemoveFinalizer(@, finalizer)],
              ReconcileSuccess)
            EXCEPT !.result = Result(FALSE, 0),
                   !.update = TRUE]

\* _delete that stops at the first deletion that fails.
delete_shortCircuits(c0) ==
    IF c0.pc = "deleteWorkers" THEN finishDelete(deleteWorkers(c0))
    ELSE
    LET c1 == [Set(c0, Deleting) EXCEPT !.branch = "delete"]
    IN  IF c1.inst.ReclaimPolicy = "Delete"
        THEN LET m == deleteMaster(c1)
             IN  IF m.derrs = <<>> THEN [m EXCEPT !.pc = "deleteWorkers"]
                 ELSE finishDelete(m)
        ELSE finishDelete(c1)

\* The step of _delete the pass is at: the deletion of the cluster
\* (eks.go 369-374), then the deletion of the workers and the end
\* (eks.go 376-392).
_delete(c0) ==
    IF c0.pc = "deleteWorkers" THEN finishDelete(deleteWorkers(c0))
    ELSE
    LET c1 == [Set(c0, Deleting) EXCEPT !.branch = "delete"]
    IN  IF c1.inst.ReclaimPolicy = "Delete"
        THEN [deleteMaster(c1) EXCEPT !.pc = "deleteWorkers"]
        ELSE finishDelete(c1)

-----------------------------------------------------------------------------
\* Reconciler.Reconcile, after the object was fetched.

\* A dispatch that creates whenever the object is not being deleted.
dispatch_createsAgain(c0) ==
    LET c == [c0 EXCEPT !.inst = AddFinalizer(@, finalizer)]
    IN  IF c.inst.DeletionTimestamp THEN [c EXCEPT !.pc = "delete"]
        ELSE IF c.inst.ClusterName = EmptyName \/ c.inst.State = "CREATING"
        THEN [c EXCEPT !.pc = "create"]
        ELSE [c EXCEPT !.pc = "sync"]

\* The branch the pass takes once connected and past reference resolution
\* (eks.go 429-443).
dispatch(c0) ==
    LET c == [c0 EXCEPT !.inst = AddFinalizer(@, finalizer)]
    IN  IF c.inst.DeletionTimestamp THEN [c EXCEPT !.pc = "delete"]
        ELSE IF c.inst.ClusterName = EmptyName THEN [c EXCEPT !.pc = "create"]
        ELSE [c EXCEPT !.pc = "sync"]

\* Resolution that goes on to provisioning when it failed.
unresolved_provisions(r) ==
    dispatch(Set(r, ReconcileError(r.rerr)))

\* The end of a pass whose reference resolution failed (eks.go 416-422).
unresolved(r) ==
    LET condition == IF r.rerr = errReferencesAccess
                     THEN ReferenceResolutionBlocked(r.rerr)
                     ELSE ReconcileError(r.rerr)
    IN  [Set(r, condition) EXCEPT
            !.result = Result(FALSE, aLongWait),
            !.update = TRUE,
            !.branch = "unresolved"]

\* A failed connect after which the pass goes on.
connectFailed_goesOn(c) ==
    dispatch(Set(Failed(c, "Connect"), ReconcileError(errBoom("Connect"))))

\* The end of a pass whose connect failed (eks.go 410-412).
connectFailed(c) ==
    fail(Failed([c EXCEPT !.branch = "connect"], "Connect"),
         errBoom("Connect"))

\* The step of reference resolution (eks.go 415-426).
resolve(c) ==
    LET r == ResolveReferences(c)
    IN  IF r.rerr # errNil THEN unresolved(r)
        ELSE dispatch(Set(r, ReferenceResolutionSuccess))

\* Reconcile that resolves the references in every pass.
Reconcile_resolvesEveryPass(c0) ==
    CASE c0.pc = "fetched" ->
            LET c == Call(c0, "Connect")
            IN  IF "connect" \in c.F THEN connectFailed(c)
                ELSE [c EXCEPT !.pc = "resolve"]
      [] c0.pc = "resolve" -> resolve(c0)
      [] c0.pc = "create" -> _create(c0)
      [] c0.pc \in {"sync", "createWorkers", "syncWorkers"} -> _sync(c0)
      [] c0.pc \in {"delete", "deleteWorkers"} -> _delete(c0)

\* The step of Reconcile the pass c0 is at, up to its next request to the
\* API server or to the provider: first the connect that follows the read
\* of the object (eks.go 409-413, 414).
Reconcile(c0) ==
    CASE c0.pc = "fetched" ->
            LET c == Call(c0, "Connect")
            IN  IF "connect" \in c.F THEN connectFailed(c)
                ELSE IF ~IsConditionTrue(c.inst.Conditions,
                                         TypeReferencesResolved)
                THEN [c EXCEPT !.pc = "resolve"]
                ELSE dispatch(c)
      [] c0.pc = "resolve" -> resolve(c0)
      [] c0.pc = "create" -> _create(c0)
      [] c0.pc \in {"sync", "createWorkers", "syncWorkers"} -> _sync(c0)
      [] c0.pc \in {"delete", "deleteWorkers"} -> _delete(c0)

\* Where the pass is after a step: at its end when it aborted or returned
\* without a write, at its last write, or at its next request.
Position(c) ==
    IF c.panic \/ c.pc = "done" THEN "done"
    ELSE IF c.update THEN "update"
    ELSE c.pc

-----------------------------------------------------------------------------
\* State machine.

\* The record of a pass that ended.  kind is "none" after any step that is
\* not the end of a pass.
NoPass ==
    [ kind |-> "none",
      inst |-> NewEKSCluster({}, "Delete"),
      refFields0 |-> RefFields(NewEKSCluster({}, "Delete")),
      stackID0 |-> "", clusterName0 |-> EmptyName,
      statuses |-> NoStatuses,
      calls |-> <<>>, branch |-> "none", result |-> Result(FALSE, 0),
      err |-> errNil, update |-> FALSE, wrote |-> FALSE, midWrote |-> FALSE,
      createErr |-> <<>>, createName |-> EmptyName,
      seenCluster |-> "", seenStack |-> "",
      set |-> <<>>, failed |-> {}, notfound |-> {},
      resolved0 |-> FALSE, erred0 |-> FALSE, panic |-> FALSE ]

Init ==
    /\ \E refs \in RefConfigs, reclaim \in ReclaimPolicies :
            obj = NewEKSCluster(refs, reclaim)
    /\ objExists = TRUE
    /\ cluster = "absent"
    /\ stack = "absent"
    /\ nClusters = 0
    /\ nStacks = 0
    /\ passes = [w \in Workers |-> Idle]
    /\ last = NoPass
    /\ input = NoInput

\* The API server removes an object whose deletion was requested once it
\* carries no finalizer.
Removed(o) == o.DeletionTimestamp /\ o.Finalizers = {}

\* A change of the object by someone else outdates the copy of a pass in
\* flight.
Outdate(ps) ==
    [v \in Workers |-> IF ps[v].pc = "idle" THEN ps[v]
                       ELSE [ps[v] EXCEPT !.stale = TRUE]]

\* A pass that returns no error whatever its status write did.
returned_swallows(c, uerr) == errNil

\* The error a pass returns, uerr being the error of its status write:
\* r.Update(ctx, instance) as it is, wrapped after a failed resolution
\* (eks.go 422), nil when the pass wrote nothing.
returned(c, uerr) ==
    IF c.branch = "unresolved" THEN Wrap(uerr, errUpdateManagedStatus)
    ELSE uerr

\* What a pass leaves when it ends: wrote says that its last r.Update was
\* accepted, uerr is the error of that write.
PassRecord(c, wrote, uerr) ==
    [ kind |-> "run",
      inst |-> c.inst,
      refFields0 |-> c.refFields0,
      stackID0 |-> c.stackID0,
      clusterName0 |-> c.clusterName0,
      statuses |-> c.seenStatuses,
      calls |-> c.calls, branch |-> c.branch,
      result |-> IF c.panic THEN Result(FALSE, 0) ELSE c.result,
      err |-> returned(c, uerr),
      update |-> c.update /\ ~c.panic,
      wrote |-> wrote, midWrote |-> c.midWrote,
      createErr |-> c.createErr,
      createName |-> c.createName,
      seenCluster |-> c.seenCluster,
      seenStack |-> c.seenStack,
      set |-> c.set, failed |-> c.failed,
      notfound |-> c.notfound,
      resolved0 |-> c.resolved0,
      erred0 |-> c.erred0,
      panic |-> c.panic ]

\* One step of Reconcile for the pass p of worker w, with the failures F
\* and the statuses the reference targets show: the request the pass is
\* at and the code up to the next request.  The write of the resolver
\* reaches the object in this step; the pass ends here when it aborts or
\* returns without a write.
Advance(w, p, F, statuses) ==
    \E c \in {Reconcile(Load(p, F, statuses))} :
        /\ c.nClusters <= MaxClusters
        /\ c.nStacks <= MaxStacks
        /\ Len(c.inst.SubnetIDs) <= MaxIDs
        /\ Len(c.inst.SecurityGroupIDs) <= MaxIDs
        /\ obj' = IF p.pc = "resolve" /\ c.midWrote THEN c.midInst ELSE obj
        /\ cluster' = c.cluster
        /\ stack' = c.stack
        /\ nClusters' = c.nClusters
        /\ nStacks' = c.nStacks
        /\ passes' = [passes EXCEPT
                        ![w] = IF Position(c) = "done" THEN Idle
                               ELSE Store(c, Position(c))]
        /\ last' = IF Position(c) = "done" THEN PassRecord(c, FALSE, errNil)
                   ELSE NoPass
        /\ UNCHANGED <<objExists, input>>

\* What r.Get reads.  The reconciler's client (eks.go 113-114) reads from
\* the manager's cache and writes to the API server; where the model keeps
\* the cache apart from the object (input.kind = "cache") a read returns
\* what the cache holds.
Cached ==
    IF input.kind = "cache"
    THEN [obj |-> input.obj, exists |-> input.exists]
    ELSE [obj |-> obj, exists |-> objExists]

\* An IgnoreNotFound that keeps every error.
IgnoreNotFound_keeps(err) == err

\* resource.IgnoreNotFound
IgnoreNotFound(err) == IF err = errNotFound THEN errNil ELSE err

\* r.Get of Reconcile (eks.go 400-406) when it ends the pass with getErr:
\* the object is gone, or the read fails.
FetchFails(getErr) ==
    /\ \A w \in Workers : passes[w].pc = "idle"
    /\ getErr = errNotFound => ~Cached.exists
    /\ last' = [NoPass EXCEPT !.kind = "fetch",
                    !.err = IgnoreNotFound(getErr),
                    !.failed = IF getErr = errNotFound THEN {} ELSE {"Fetch"},
                    !.notfound = IF getErr = errNotFound
                                 THEN {"Fetch"} ELSE {}]
    /\ UNCHANGED <<obj, objExists, cluster, stack, nClusters, nStacks, passes, input>>

\* The start of a pass: r.Get reads the object (eks.go 400), then the
\* connect and what follows it up to the next request.  A copy that is not
\* the object as persisted is outdated from the start.
Fetch(w, F) ==
    /\ Cached.exists
    /\ passes[w].pc = "idle"
    /\ Advance(w, [NewPass(Cached.obj) EXCEPT !.pc = "fetched",
                                             !.stale = Cached.obj # obj],
               F, NoStatuses)

\* The next request of a pass in flight, the last write excepted.
Step(w, F, statuses) ==
    /\ passes[w].pc \notin {"idle", "update"}
    /\ Advance(w, passes[w], F, statuses)

\* The last r.Update of a pass (eks.go 139, 179, 197, 311, 326, 345, 392, 422).
\* The API server takes it when the object is still the one the pass read
\* or wrote; the pass ends.
Write(w, F) ==
    /\ passes[w].pc = "update"
    /\ LET c == passes[w]
           fresh == objExists /\ ~c.stale
           wrote == fresh /\ "update" \notin F
           uerr == IF wrote THEN errNil
                   ELSE IF fresh THEN errBoom("Update") ELSE errConflict
       IN  /\ obj' = IF wrote THEN c.inst ELSE obj
           /\ objExists' = (objExists /\ ~(wrote /\ Removed(c.inst)))
           /\ last' = PassRecord(c, wrote, uerr)
    /\ passes' = [passes EXCEPT ![w] = Idle]
    /\ UNCHANGED <<cluster, stack, nClusters, nStacks, input>>

\* The user deletes the object; a foreground deletion makes the API server
\* add its own finalizer first.
RequestDeletion(foreground) ==
    /\ objExists /\ ~obj.DeletionTimestamp
    /\ LET o == [obj EXCEPT !.DeletionTimestamp = TRUE,
                            !.Finalizers = IF foreground
                                           THEN @ \cup {foregroundDeletion}
                                           ELSE @]
       IN  /\ obj' = o
           /\ objExists' = ~Removed(o)
    /\ passes' = Outdate(passes)
    /\ last' = NoPass
    /\ UNCHANGED <<cluster, stack, nClusters, nStacks, input>>

\* The garbage collector finishes a foreground deletion.
FinishForeground ==
    /\ objExists /\ foregroundDeletion \in obj.Finalizers
    /\ LET o == RemoveFinalizer(obj, foregroundDeletion)
       IN  /\ obj' = o
           /\ objExists' = ~Removed(o)
    /\ passes' = Outdate(passes)
    /\ last' = NoPass
    /\ UNCHANGED <<cluster, stack, nClusters, nStacks, input>>

\* The provider moves the cluster on.
ClusterProgress ==
    /\ \/ cluster = "CREATING" /\ cluster' \in {"ACTIVE", "FAILED"}
       \/ cluster = "DELETING" /\ cluster' = "absent"
    /\ last' = NoPass
    /\ UNCHANGED <<obj, objExists, stack, nClusters, nStacks, passes, input>>

\* The provider moves the worker stack on.
StackProgress ==
    /\ \/ /\ stack = "CREATE_IN_PROGRESS"
          /\ stack' \in {"CREATE_COMPLETE", "CREATE_FAILED",
                         "ROLLBACK_COMPLETE", "ROLLBACK_FAILED"}
       \/ stack = "CREATE_COMPLETE" /\ stack' = "UPDATE_COMPLETE"
       \/ /\ stack = "DELETE_IN_PROGRESS"
          /\ stack' \in {"DELETE_COMPLETE", "DELETE_FAILED"}
       \/ stack = "DELETE_COMPLETE" /\ stack' = "absent"
    /\ last' = NoPass
    /\ UNCHANGED <<obj, objExists, cluster, nClusters, nStacks, passes, input>>

DeleteObject == \E fg \in BOOLEAN : RequestDeletion(fg)

EndAtFetch == \E getErr \in {errNotFound, errBoom("Get")} : FetchFails(getErr)

FetchObject ==
    \E w \in Workers : \E F \in FaultSets(passes[w]) : Fetch(w, F)

StepPass ==
    \E w \in Workers : \E F \in FaultSets(passes[w]) :
        \E statuses \in StatusChoices(passes[w]) : Step(w, F, statuses)

WriteStatus ==
    \E w \in Workers : \E F \in FaultSets(passes[w]) : Write(w, F)

Next ==
    \/ EndAtFetch
    \/ FetchObject
    \/ StepPass
    \/ WriteStatus
    \/ DeleteObject
    \/ FinishForeground
    \/ ClusterProgress
    \/ StackProgress

Spec == Init /\ [][Next]_vars

\* Passes that may start from a copy of the object that is older than the
\* object as persisted: the cache follows the API server with a delay, so
\* that a pass can start before the write of the pass before it is visible.
\* The object has references and reclaim policy Delete, the targets are
\* Ready, writes fail when the copy is outdated only, and of the provider
\* calls the two creations may fail.
OverlapFaults(p) ==
    FaultSets(p) \cap
        {{}, {"create_other"}, {"create_exists_nil"}, {"createworkers"}}

InitOverlap ==
    /\ obj = NewEKSCluster({"vpcIdRef", "subnetIdRefs"}, "Delete")
    /\ objExists = TRUE
    /\ cluster = "absent"
    /\ stack = "absent"
    /\ nClusters = 0
    /\ nStacks = 0
    /\ passes = [w \in Workers |-> Idle]
    /\ last = NoPass
    /\ input = [kind |-> "cache", exists |-> TRUE,
                obj |-> NewEKSCluster({"vpcIdRef", "subnetIdRefs"}, "Delete")]

\* The cache catches up with the API server.
CacheSync ==
    /\ input.kind = "cache"
    /\ input.obj # obj \/ input.exists # objExists
    /\ input' = [input EXCEPT !.obj = obj, !.exists = objExists]
    /\ last' = NoPass
    /\ UNCHANGED <<obj, objExists, cluster, stack, nClusters, nStacks, passes>>

FetchCached ==
    \E w \in Workers : \E F \in OverlapFaults(passes[w]) : Fetch(w, F)

StepFetched ==
    \E w \in Workers : \E F \in OverlapFaults(passes[w]) :
        Step(w, F, [r \in passes[w].inst.refs |-> "Ready"])

WriteFetched == \E w \in Workers : Write(w, {})

NextOverlap ==
    \/ CacheSync
    \/ FetchCached
    \/ StepFetched
    \/ WriteFetched
    \/ DeleteObject
    \/ FinishForeground
    \/ ClusterProgress
    \/ StackProgress

SpecOverlap == InitOverlap /\ [][NextOverlap]_vars

-----------------------------------------------------------------------------
\* Vocabulary of the properties.

RanPass == last.kind = "run"

Did(name) == \E i \in DOMAIN last.calls : last.calls[i] = name

IndexOf(name) ==
    IF Did(name)
    THEN CHOOSE i \in DOMAIN last.calls :
            last.calls[i] = name /\ \A j \in 1..(i-1) : last.calls[j] # name
    ELSE 0

SetReason(reason) == \E i \in DOMAIN last.set : last.set[i] = reason

\* The message of the Synced condition the pass leaves on its instance.
SyncedMessage ==
    LET conds == last.inst.Conditions
    IN  IF \E i \in DOMAIN conds : conds[i].Type = TypeSynced
        THEN conds[CHOOSE i \in DOMAIN conds : conds[i].Type = TypeSynced].Message
        ELSE <<>>

Mentions(msg, token) == \E i \in DOMAIN msg : msg[i] = token

\* Some target the pass read is missing or not Ready.
Blocked ==
    /\ RanPass
    /\ \E r \in DOMAIN last.statuses : last.statuses[r] # "Ready"

ProvisioningCalls == {"Create", "CreateWorkerNodes", "Get", "GetWorkerNodes",
                      "awsauth", "secret"}

NoRefFields == RefFields(NewEKSCluster({}, "Delete"))

-----------------------------------------------------------------------------
\* C1: a pass that finds a reference target missing or not Ready changes no
\* reference-filled spec field, in memory or persisted, and issues none of
\* Create, CreateWorkerNodes or the calls of the sync branch.
C1_BlockedPassProvisionsNothing ==
    Blocked =>
        /\ RefFields(last.inst) = last.refFields0
        /\ RefFields(obj) = last.refFields0
        /\ \A call \in ProvisioningCalls : ~Did(call)

C1_Witness ==
    /\ Blocked
    /\ last.branch = "unresolved"
    /\ SetReason("ReferenceResolutionBlocked")
    /\ last.wrote
    /\ RefFields(obj) = NoRefFields

\* C2: a pass on an object whose deletion was requested runs the delete
\* branch whenever Connect succeeded, whatever reference resolution does.
C2_DeletionRunsDeleteBranch ==
    (RanPass /\ last.inst.DeletionTimestamp /\ "Connect" \notin last.failed)
        => last.branch = "delete"

\* C3 as stated: once ReferencesResolved is persisted as True it stays True,
\* no pass calls ResolveReferences, GetStatus, Build or Assign, and the
\* reference-filled spec fields keep their values.
C3_ResolvedIsFrozen ==
    [][ (objExists /\ IsConditionTrue(obj.Conditions, TypeReferencesResolved))
        => /\ RefFields(obj') = RefFields(obj)
           /\ IsConditionTrue(obj'.Conditions, TypeReferencesResolved)
           /\ \A i \in DOMAIN last'.calls :
                last'.calls[i] \notin
                    {"ResolveReferences", "GetStatus", "Build", "Assign"} ]_vars

\* C3, amended: once ReferencesResolved is persisted as True it stays True
\* and the persisted reference-filled spec fields keep their values; a pass
\* whose copy of the object has the condition True calls none of
\* ResolveReferences, GetStatus, Build and Assign and leaves the
\* reference-filled fields of its copy as it read them; and a pass that
\* resolves while the condition is persisted as True, its copy being older
\* than the write that persisted it, writes nothing to the object.
C3_ResolvedCopyIsFrozen ==
    [][ /\ (objExists /\ IsConditionTrue(obj.Conditions, TypeReferencesResolved))
            => /\ RefFields(obj') = RefFields(obj)
               /\ IsConditionTrue(obj'.Conditions, TypeReferencesResolved)
               /\ (last'.kind = "run" /\ ~last'.resolved0)
                    => ~last'.wrote /\ ~last'.midWrote
        /\ (last'.kind = "run" /\ last'.resolved0)
            => /\ \A i \in DOMAIN last'.calls :
                    last'.calls[i] \notin
                        {"ResolveReferences", "GetStatus", "Build", "Assign"}
               /\ RefFields(last'.inst) = last'.refFields0 ]_vars

C3_Witness ==
    /\ RanPass /\ ~last.resolved0
    /\ Did("ResolveReferences") /\ Did("GetStatus")
    /\ ~last.wrote /\ ~last.midWrote
    /\ objExists
    /\ IsConditionTrue(obj.Conditions, TypeReferencesResolved)
    /\ RefFields(obj) # NoRefFields
    /\ obj.ClusterName # EmptyName

\* C4: a create pass to which the provider answers already-exists ends as a
\* success: it does not abort, sets no ReconcileError, records ClusterName
\* and State CREATING and requeues after the short wait.
C4_CreateOfExistingClusterSucceeds ==
    (RanPass /\ last.branch = "create" /\ last.createErr = errAlreadyExists)
        => /\ ~last.panic
           /\ ~SetReason("ReconcileError")
           /\ last.inst.ClusterName = ClusterNameOf(UID)
           /\ last.inst.State = ClusterStatusCreating
           /\ last.result = Result(FALSE, aShortWait)
           /\ last.update
           /\ nClusters <= 1

\* C5: a pass sets Available only after it saw the cluster ACTIVE, then the
\* worker stack completed, then ran aws-auth and then published the
\* connection details, all without error; a sync pass in which one of these
\* fails sets ReconcileError and not Available; a persisted Ready = True
\* comes with State ACTIVE.
C5_AvailableOnlyAfterAllSteps ==
    /\ (RanPass /\ SetReason("Available")) =>
          /\ last.seenCluster = ClusterStatusActive
          /\ last.seenStack \in completedCFState
          /\ 0 < IndexOf("Get")
          /\ IndexOf("Get") < IndexOf("GetWorkerNodes")
          /\ IndexOf("GetWorkerNodes") < IndexOf("awsauth")
          /\ IndexOf("awsauth") < IndexOf("secret")
          /\ last.failed = {}
          /\ last.inst.State = ClusterStatusActive
          /\ IsConditionTrue(last.inst.Conditions, TypeReady)
    /\ (RanPass /\ last.branch = "sync"
          /\ (last.failed # {} \/ last.seenStack \in failedCFState)) =>
          /\ SetReason("ReconcileError")
          /\ ~SetReason("Available")
    /\ (objExists /\ IsConditionTrue(obj.Conditions, TypeReady)) =>
          obj.State = ClusterStatusActive

C5_Witness ==
    /\ RanPass /\ SetReason("Available") /\ last.wrote
    /\ IsConditionTrue(obj.Conditions, TypeReady)
    /\ obj.State = ClusterStatusActive

\* C6: re-issuing the creation of the cluster or of the worker nodes is a
\* safe no-op: a pass that finds the cluster or the stack already there
\* neither aborts nor reports an error, and at most one cluster and one
\* worker stack are ever created.
C6_ReissuedCreationIsNoOp ==
    /\ nClusters <= 1
    /\ nStacks <= 1
    /\ (RanPass /\ last.createErr = errAlreadyExists) =>
            (~last.panic /\ ~SetReason("ReconcileError"))
    /\ (RanPass /\ "CreateWorkerNodes" \in last.failed) =>
            SyncedMessage # errAlreadyExists

\* C7: with passes that start from a copy older than the write of the pass
\* before them, no second cluster and no second worker stack is created,
\* and between two passes the persisted CloudFormationStackID names the
\* worker stack that exists.
C7_OverlapCreatesOnceAndRecords ==
    /\ nClusters <= 1
    /\ nStacks <= 1
    /\ (objExists /\ ~obj.DeletionTimestamp /\ stack # "absent"
            /\ \A w \in Workers : passes[w].pc = "idle") =>
            obj.CloudFormationStackID = StackIDs[nStacks]

\* C8: with reclaim policy Delete a delete pass removes the finalizer only
\* when no deletion it issued failed; when the worker deletion fails and the
\* cluster deletion does not, the pass sets a ReconcileError that names the
\* worker failure, keeps the finalizer and requeues after the short wait.
C8_FinalizerKeptOnDeletionFailure ==
    (RanPass /\ last.branch = "delete" /\ last.inst.ReclaimPolicy = "Delete") =>
        /\ finalizer \notin last.inst.Finalizers => last.failed = {}
        /\ (last.failed # {} /\ last.wrote) =>
                (objExists /\ finalizer \in obj.Finalizers)
        /\ ("DeleteWorkerNodes" \in last.failed /\ "Delete" \notin last.failed) =>
                /\ SetReason("ReconcileError")
                /\ Mentions(SyncedMessage, "Worker Delete Error:")
                /\ ~Mentions(SyncedMessage, "Master Delete Error:")
                /\ finalizer \in last.inst.Finalizers
                /\ last.result = Result(FALSE, aShortWait)

C8_Witness ==
    /\ RanPass /\ last.branch = "delete"
    /\ last.inst.ReclaimPolicy = "Delete"
    /\ last.failed = {"DeleteWorkerNodes"}
    /\ Did("Delete")
    /\ "Delete" \notin last.notfound
    /\ last.wrote

\* C9: a failing cluster deletion does not keep a delete pass from issuing
\* the worker-stack deletion for a recorded stack ID, and when both fail
\* the one ReconcileError of the pass carries both failures.
C9_DeletionErrorsAccumulate ==
    (RanPass /\ last.branch = "delete" /\ last.inst.ReclaimPolicy = "Delete") =>
        /\ ("Delete" \in last.failed /\ last.inst.CloudFormationStackID # "")
                => Did("DeleteWorkerNodes")
        /\ {"Delete", "DeleteWorkerNodes"} \subseteq last.failed =>
                /\ Mentions(SyncedMessage, "Master Delete Error:")
                /\ Mentions(SyncedMessage, "Worker Delete Error:")
                /\ Cardinality({i \in DOMAIN last.set :
                                    last.set[i] = "ReconcileError"}) = 1

C9_Witness ==
    /\ RanPass /\ last.branch = "delete"
    /\ last.failed = {"Delete", "DeleteWorkerNodes"}
    /\ last.wrote

\* C10: a delete pass whose deletions answer not-found, and none of which
\* fails, sets no ReconcileError, removes the finalizer and returns without
\* requeue.
C10_NotFoundDeletionSucceeds ==
    (RanPass /\ last.branch = "delete" /\ last.notfound # {}
        /\ last.failed = {}) =>
        /\ ~SetReason("ReconcileError")
        /\ SetReason("ReconcileSuccess")
        /\ finalizer \notin last.inst.Finalizers
        /\ last.result = Result(FALSE, 0)
        /\ last.update
        /\ last.wrote => (objExists => finalizer \notin obj.Finalizers)

C10_Witness ==
    /\ RanPass /\ last.branch = "delete"
    /\ last.notfound = {"Delete", "DeleteWorkerNodes"}
    /\ last.failed = {}
    /\ last.wrote
    /\ ~objExists

\* C11: a delete pass that requests both deletions requests the deletion of
\* the worker stack before the deletion of the cluster.
C11_WorkersDeletedBeforeCluster ==
    (RanPass /\ Did("Delete") /\ Did("DeleteWorkerNodes"))
        => IndexOf("DeleteWorkerNodes") < IndexOf("Delete")

\* C12: a pass whose reference resolution is blocked by a references-access
\* error sets ReferenceResolutionBlocked, sets no ReconcileError and
\* requeues after the short wait.
C12_BlockedRequeuesAfterShortWait ==
    (Blocked /\ last.branch = "unresolved") =>
        /\ SetReason("ReferenceResolutionBlocked")
        /\ ~SetReason("ReconcileError")
        /\ last.result = Result(FALSE, aShortWait)

\* C13: a pass whose connect fails sets ReconcileError, writes the object
\* back, requeues after the short wait and calls nothing else: no reference
\* resolution, no create, sync or delete.
C13_ConnectFailureEndsPass ==
    (RanPass /\ "Connect" \in last.failed) =>
        /\ last.calls = <<"Connect">>
        /\ last.branch = "connect"
        /\ last.set = <<"ReconcileError">>
        /\ SyncedMessage = errBoom("Connect")
        /\ last.update
        /\ last.result = Result(FALSE, aShortWait)
        /\ last.wrote =>
                \E i \in DOMAIN obj.Conditions :
                    obj.Conditions[i] = ReconcileError(errBoom("Connect"))

C13_Witness ==
    /\ RanPass /\ "Connect" \in last.failed
    /\ last.wrote
    /\ last.inst.DeletionTimestamp
    /\ last.inst.refs # {}

\* C14: a pass whose read finds the object gone ends with no error, no
\* requeue, no call and no write; a read that fails otherwise ends the pass
\* the same way but returns its error.
C14_FetchNotFoundEndsQuietly ==
    (last.kind = "fetch") =>
        /\ last.calls = <<>>
        /\ last.set = <<>>
        /\ last.result = Result(FALSE, 0)
        /\ ~last.update /\ ~last.wrote /\ ~last.midWrote
        /\ "Fetch" \in last.notfound => last.err = errNil
        /\ "Fetch" \in last.failed => last.err = errBoom("Get")

C14_Witness ==
    /\ last.kind = "fetch"
    /\ "Fetch" \in last.notfound
    /\ ~objExists
    /\ cluster # "absent"

\* C15: every pass that fetched the object and ran to its end writes the
\* object back.
C15_EveryPassWrites ==
    (RanPass /\ ~last.panic) => last.update

\* C16: a pass whose status write fails returns the error of that write,
\* and a pass whose status write succeeds returns nil, also when it set
\* ReconcileError.
C16_WriteFailureIsReturned ==
    RanPass =>
        /\ (last.update /\ ~last.wrote) =>
                last.err \in {errBoom("Update"), errConflict,
                              Wrap(errBoom("Update"), errUpdateManagedStatus),
                              Wrap(errConflict, errUpdateManagedStatus)}
        /\ last.wrote => last.err = errNil

C16_Witness ==
    /\ RanPass /\ last.update /\ ~last.wrote
    /\ last.branch = "unresolved"
    /\ last.err = Wrap(errBoom("Update"), errUpdateManagedStatus)

\* C17: a sync pass that sees the cluster in a status other than ACTIVE
\* requeues after the short wait and calls none of CreateWorkerNodes,
\* GetWorkerNodes, aws-auth and secret; CreateWorkerNodes is called only in
\* a pass that saw the cluster ACTIVE.
C17_PendingClusterIsPolled ==
    /\ (RanPass /\ last.branch = "sync"
          /\ last.seenCluster \notin {"", ClusterStatusActive}) =>
            /\ last.result = Result(FALSE, aShortWait)
            /\ \A call \in {"CreateWorkerNodes", "GetWorkerNodes",
                            "awsauth", "secret"} : ~Did(call)
    /\ (RanPass /\ Did("CreateWorkerNodes")) =>
            /\ last.seenCluster = ClusterStatusActive
            /\ IndexOf("Get") < IndexOf("CreateWorkerNodes")

C17_Witness ==
    /\ RanPass /\ last.branch = "sync"
    /\ last.seenCluster = ClusterStatusCreating
    /\ last.calls = <<"Connect", "Get">>
    /\ last.inst.CloudFormationStackID = ""

\* C18: a sync pass that sees the cluster in the provider's failed status
\* sets ReconcileError.
C18_FailedClusterFailsPass ==
    (RanPass /\ last.branch = "sync" /\ last.seenCluster = "FAILED")
        => SetReason("ReconcileError")

\* C19: a create pass whose Create is rejected as a bad request sets
\* ReconcileError, writes the object back, asks for no requeue and leaves
\* ClusterName empty.
C19_BadRequestDoesNotRequeue ==
    (RanPass /\ last.branch = "create" /\ last.createErr = errBadRequest) =>
        /\ SetReason("ReconcileError")
        /\ SyncedMessage = errBadRequest
        /\ last.update
        /\ last.result = Result(FALSE, 0)
        /\ last.inst.ClusterName = EmptyName
        /\ objExists => obj.ClusterName = EmptyName

C19_Witness ==
    /\ RanPass /\ last.branch = "create"
    /\ last.createErr = errBadRequest
    /\ last.wrote
    /\ \E i \in DOMAIN obj.Conditions :
            obj.Conditions[i] = ReconcileError(errBadRequest)

\* The provider calls whose errors the reconciler treats as transient.
TransientCalls == {"Get", "GetWorkerNodes", "CreateWorkerNodes", "awsauth",
                   "secret", "Delete", "DeleteWorkerNodes"}

TransientFailure ==
    /\ RanPass
    /\ \/ last.failed \cap TransientCalls # {}
       \/ /\ "Create" \in last.failed
          /\ last.createErr \notin {errAlreadyExists, errBadRequest}

\* C20: a pass in which a provider call fails with a transient error sets
\* ReconcileError and requeues after the short wait, whatever the passes
\* before it did.
C20_TransientErrorAlwaysRequeues ==
    TransientFailure =>
        /\ SetReason("ReconcileError")
        /\ last.update
        /\ last.result = Result(FALSE, aShortWait)

C20_Witness ==
    /\ TransientFailure
    /\ last.erred0
    /\ last.wrote
    /\ "Get" \in last.failed

\* C21: no step changes a spec field of the object other than the
\* reference-filled ones, and a pass that does not resolve references
\* (create, sync and delete on a resolved object) leaves those unchanged too.
C21_SpecIsNotWritten ==
    [][ (objExists /\ objExists') =>
            /\ obj'.refs = obj.refs
            /\ obj'.ReclaimPolicy = obj.ReclaimPolicy
            /\ last'.kind = "run" =>
                    /\ last'.inst.refs = obj.refs
                    /\ last'.inst.ReclaimPolicy = obj.ReclaimPolicy
            /\ (/\ last'.kind = "run"
                /\ \A i \in DOMAIN last'.calls :
                        last'.calls[i] # "ResolveReferences") =>
                    RefFields(obj') = RefFields(obj) ]_vars

C21_Witness ==
    /\ RanPass /\ last.wrote /\ objExists
    /\ last.branch = "create"
    /\ Did("Assign")
    /\ obj.refs # {}
    /\ RefFields(obj) # NoRefFields
    /\ obj.ClusterName # EmptyName

-----------------------------------------------------------------------------
\* Conditions with their transition times.  Under SpecConditions the steps
\* are the SetConditions calls of the reconciler on one object, one per
\* tick of the clock; last records the call.

MaxTime == 3

\* A condition as its constructor returns it at time t
\* (LastTransitionTime: metav1.Now()).
At(cond, t) ==
    [Type |-> cond.Type, Status |-> cond.Status, Reason |-> cond.Reason,
     Message |-> cond.Message, LastTransitionTime |-> t]

\* A SetConditions that takes the transition time of the condition it is
\* given.
SetTimedCondition_movesTime(conds, new) ==
    IF \E i \in DOMAIN conds : conds[i].Type = new.Type
    THEN [i \in DOMAIN conds |->
            IF conds[i].Type # new.Type THEN conds[i] ELSE new]
    ELSE Append(conds, new)

\* ConditionedStatus.SetConditions for one condition, transition times
\* included: the condition of the same type is replaced, and the transition
\* time is that of the condition in place unless the status changed.
SetTimedCondition(conds, new) ==
    IF \E i \in DOMAIN conds : conds[i].Type = new.Type
    THEN [i \in DOMAIN conds |->
            IF conds[i].Type # new.Type THEN conds[i]
            ELSE IF conds[i].Status = new.Status
            THEN [new EXCEPT !.LastTransitionTime =
                                conds[i].LastTransitionTime]
            ELSE new]
    ELSE Append(conds, new)

\* The conditions the reconciler sets.
LoopConditions ==
    {Creating, Deleting, Available, ReconcileSuccess,
     ReferenceResolutionSuccess,
     ReferenceResolutionBlocked(errReferencesAccess),
     ReconcileError(errBoom("Connect")), ReconcileError(errBoom("Get"))}

NoCall ==
    [kind |-> "none", before |-> <<>>, cond |-> At(Creating, 0), now |-> 0]

InitConditions ==
    /\ obj = NewEKSCluster({}, "Delete")
    /\ objExists = TRUE
    /\ cluster = "absent"
    /\ stack = "absent"
    /\ nClusters = 0
    /\ nStacks = 0
    /\ passes = [w \in Workers |-> Idle]
    /\ last = NoCall
    /\ input = NoInput

\* instance.Status.SetConditions(cond) at the next tick.
SetConditionsCall(cond) ==
    LET now == last.now + 1
    IN  /\ now <= MaxTime
        /\ obj' = [obj EXCEPT !.Conditions = SetTimedCondition(@, At(cond, now))]
        /\ last' = [kind |-> "set", before |-> obj.Conditions,
                    cond |-> At(cond, now), now |-> now]
        /\ UNCHANGED <<objExists, cluster, stack, nClusters, nStacks, passes, input>>

NextConditions == \E cond \in LoopConditions : SetConditionsCall(cond)

SpecConditions == InitConditions /\ [][NextConditions]_vars

\* C22: the object carries at most one condition per type, a SetConditions
\* call leaves the condition it was given in place of the one of its type,
\* and a call with the Type, Status and Reason of the condition in place
\* keeps that condition's transition time.
C22_OneConditionPerTypeKeepsTime ==
    /\ \A i, j \in DOMAIN obj.Conditions :
            obj.Conditions[i].Type = obj.Conditions[j].Type => i = j
    /\ last.kind = "set" =>
        /\ \E j \in DOMAIN obj.Conditions :
                /\ obj.Conditions[j].Type = last.cond.Type
                /\ obj.Conditions[j].Status = last.cond.Status
                /\ obj.Conditions[j].Reason = last.cond.Reason
                /\ obj.Conditions[j].Message = last.cond.Message
        /\ \A i \in DOMAIN last.before :
              (/\ last.before[i].Type = last.cond.Type
               /\ last.before[i].Status = last.cond.Status
               /\ last.before[i].Reason = last.cond.Reason) =>
                    obj.Conditions[i].LastTransitionTime =
                        last.before[i].LastTransitionTime

C22_Witness ==
    /\ last.kind = "set"
    /\ last.cond = At(ReconcileError(errBoom("Get")), 3)
    /\ \E i \in DOMAIN last.before :
            last.before[i] = At(ReconcileError(errBoom("Connect")), 2)
    /\ \E i \in DOMAIN obj.Conditions :
            obj.Conditions[i] = At(ReconcileError(errBoom("Get")), 2)
    /\ \E i \in DOMAIN obj.Conditions :
            obj.Conditions[i] = At(Creating, 1)

-----------------------------------------------------------------------------
\* The attribute referencers as single operations.  Under SpecReferencers
\* input holds the arguments: a referencer, the referencing resource and a
\* reader for GetStatus and Build, or the resource kind, the referencer and
\* the value for Assign; obj is the EKSCluster handed to Assign and last
\* records the call and what it returned.

Names == {"mockName", "otherName"}
Namespaces == {"mockNamespace", "otherNamespace"}
Keys == Names \X Namespaces

\* The identifier in the Status of the target stored under a key.
IdOf(key) ==
    CASE key = <<"mockName", "mockNamespace">> -> "id-mockName-mockNamespace"
      [] key = <<"mockName", "otherNamespace">> -> "id-mockName-otherNamespace"
      [] key = <<"otherName", "mockNamespace">> -> "id-otherName-mockNamespace"
      [] key = <<"otherName", "otherNamespace">> ->
            "id-otherName-otherNamespace"

\* No object under the key.
NoTarget == [found |-> FALSE, Ready |-> FALSE, ID |-> ""]

\* What a reader holds under a key: nothing, a target whose Ready condition
\* is not True, or a Ready target.
Targets(key) ==
    {NoTarget, [found |-> TRUE, Ready |-> FALSE, ID |-> IdOf(key)],
     [found |-> TRUE, Ready |-> TRUE, ID |-> IdOf(key)]}

Readers ==
    {[err |-> e, objects |-> o] :
        e \in BOOLEAN,
        o \in {f \in [Keys -> UNION {Targets(k) : k \in Keys}] :
                    \A k \in Keys : f[k] \in Targets(k)}}

\* reader.Get(ctx, nn, &target)
readerGet(reader, nn) ==
    IF reader.err THEN [err |-> errBoom("Get"), obj |-> NoTarget]
    ELSE IF ~reader.objects[nn].found
    THEN [err |-> errNotFound, obj |-> NoTarget]
    ELSE [err |-> errNil, obj |-> reader.objects[nn]]

\* kerrors.IsNotFound
IsNotFound(err) == err = errNotFound

ReferenceStatus(name, status) == [Name |-> name, Status |-> status]

\* A GetStatus that reads the target from the default namespace.
GetStatus_ignoresNamespace(v, res, reader) ==
    LET r == readerGet(reader, <<v.Name, "mockNamespace">>)
    IN  IF r.err # errNil
        THEN IF IsNotFound(r.err)
             THEN [statuses |-> <<ReferenceStatus(v.Name, "NotFound")>>,
                   err |-> errNil]
             ELSE [statuses |-> <<>>, err |-> r.err]
        ELSE IF ~r.obj.Ready
        THEN [statuses |-> <<ReferenceStatus(v.Name, "NotReady")>>,
              err |-> errNil]
        ELSE [statuses |-> <<ReferenceStatus(v.Name, "Ready")>>,
              err |-> errNil]

\* SecurityGroupIDReferencer.GetStatus
GetStatus(v, res, reader) ==
    LET nn == <<v.Name, res.Namespace>>
        r == readerGet(reader, nn)
    IN  IF r.err # errNil
        THEN IF IsNotFound(r.err)
             THEN [statuses |-> <<ReferenceStatus(v.Name, "NotFound")>>,
                   err |-> errNil]
             ELSE [statuses |-> <<>>, err |-> r.err]
        ELSE IF ~r.obj.Ready
        THEN [statuses |-> <<ReferenceStatus(v.Name, "NotReady")>>,
              err |-> errNil]
        ELSE [statuses |-> <<ReferenceStatus(v.Name, "Ready")>>,
              err |-> errNil]

\* A Build that returns the identifier of a target of another name.
Build_ignoresName(v, res, reader) ==
    LET r == readerGet(reader, <<"mockName", res.Namespace>>)
    IN  IF r.err # errNil THEN [value |-> "", err |-> r.err]
        ELSE [value |-> r.obj.ID, err |-> errNil]

\* SecurityGroupIDReferencer.Build
Build(v, res, reader) ==
    LET nn == <<v.Name, res.Namespace>>
        r == readerGet(reader, nn)
    IN  IF r.err # errNil THEN [value |-> "", err |-> r.err]
        ELSE [value |-> r.obj.ID, err |-> errNil]

errResourceIsNotEKSCluster == <<"The managed resource is not an EKSCluster">>

ResourceKinds == {"EKSCluster", "Other"}

\* An Assign that does not look at the kind of the resource.
ReferencerAssign_skipsKindCheck(kind, o, ref, value) ==
    [err |-> errNil, obj |-> Assign(o, ref, value)]

\* The Assign method of a referencer of the EKSCluster, on a resource res
\* of the given kind; o is res when res is an EKSCluster.
ReferencerAssign(kind, o, ref, value) ==
    IF kind # "EKSCluster"
    THEN [err |-> errResourceIsNotEKSCluster, obj |-> o]
    ELSE [err |-> errNil, obj |-> Assign(o, ref, value)]

ReadInputs ==
    {[kind |-> "read", v |-> [Name |-> n], res |-> [Namespace |-> ns],
      reader |-> rd] : n \in Names, ns \in Namespaces, rd \in Readers}

AssignInputs ==
    {[kind |-> "assign", res |-> k, ref |-> RefOrder[i], value |-> val] :
        k \in ResourceKinds, i \in DOMAIN RefOrder,
        val \in {"mockValue", "otherValue"}}

InitReferencers ==
    /\ obj = NewEKSCluster({}, "Delete")
    /\ objExists = TRUE
    /\ cluster = "absent"
    /\ stack = "absent"
    /\ nClusters = 0
    /\ nStacks = 0
    /\ passes = [w \in Workers |-> Idle]
    /\ last = [kind |-> "none"]
    /\ input \in ReadInputs \cup AssignInputs

CallGetStatus ==
    /\ input.kind = "read"
    /\ last' = [kind |-> "GetStatus",
                out |-> GetStatus(input.v, input.res, input.reader)]
    /\ UNCHANGED <<obj, objExists, cluster, stack, nClusters, nStacks, passes,
                   input>>

CallBuild ==
    /\ input.kind = "read"
    /\ last' = [kind |-> "Build",
                out |-> Build(input.v, input.res, input.reader)]
    /\ UNCHANGED <<obj, objExists, cluster, stack, nClusters, nStacks, passes,
                   input>>

CallAssign ==
    /\ input.kind = "assign"
    /\ \E r \in {ReferencerAssign(input.res, obj, input.ref, input.value)} :
        /\ Len(r.obj.SubnetIDs) <= MaxIDs
        /\ Len(r.obj.SecurityGroupIDs) <= MaxIDs
        /\ obj' = r.obj
        /\ last' = [kind |-> "Assign", err |-> r.err, before |-> obj]
    /\ UNCHANGED <<objExists, cluster, stack, nClusters, nStacks, passes,
                   input>>

NextReferencers ==
    \/ CallGetStatus
    \/ CallBuild
    \/ CallAssign

SpecReferencers == InitReferencers /\ [][NextReferencers]_vars

\* The target the reader holds under the referencer's name in the namespace
\* of the referencing resource.
TargetRead == input.reader.objects[<<input.v.Name, input.res.Namespace>>]

\* The same name in the other namespaces, the other names in the same
\* namespace.
ElsewhereByNamespace ==
    {input.reader.objects[<<input.v.Name, ns>>] :
        ns \in Namespaces \ {input.res.Namespace}}

ElsewhereByName ==
    {input.reader.objects[<<n, input.res.Namespace>>] :
        n \in Names \ {input.v.Name}}

\* C23: GetStatus reads the target under (reference name, namespace of the
\* referencing resource) and returns one status for it: NotFound when the
\* read finds nothing, NotReady when the target's Ready condition is not
\* True, Ready otherwise; another read error is returned with no status.
C23_GetStatusOfTarget ==
    last.kind = "GetStatus" =>
        /\ input.reader.err =>
                last.out = [statuses |-> <<>>, err |-> errBoom("Get")]
        /\ ~input.reader.err =>
                /\ last.out.err = errNil
                /\ last.out.statuses =
                    << ReferenceStatus(input.v.Name,
                         IF ~TargetRead.found THEN "NotFound"
                         ELSE IF TargetRead.Ready THEN "Ready"
                         ELSE "NotReady") >>

C23_Witness ==
    /\ last.kind = "GetStatus"
    /\ last.out.err = errNil
    /\ last.out.statuses[1].Status = "NotReady"
    /\ input.v.Name = "otherName"
    /\ \A t \in ElsewhereByNamespace \cup ElsewhereByName :
            t.found /\ t.Ready

\* C24: Build reads the target under (reference name, namespace of the
\* referencing resource) and returns the identifier of its Status and no
\* error; when the read fails it returns the empty string and the error of
\* the read.
C24_BuildReturnsTargetID ==
    last.kind = "Build" =>
        /\ input.reader.err => last.out = [value |-> "", err |-> errBoom("Get")]
        /\ (~input.reader.err /\ ~TargetRead.found) =>
                last.out = [value |-> "", err |-> errNotFound]
        /\ (~input.reader.err /\ TargetRead.found) =>
                last.out = [value |-> IdOf(<<input.v.Name, input.res.Namespace>>),
                            err |-> errNil]

C24_Witness ==
    /\ last.kind = "Build"
    /\ last.out = [value |-> IdOf(<<"otherName", "otherNamespace">>),
                   err |-> errNil]
    /\ \A t \in ElsewhereByNamespace \cup ElsewhereByName : t.found

ListRefs == {"subnetIdRefs", "securityGroupIdRefs"}

\* The spec field a referencer fills.
FieldOf(o, ref) ==
    CASE ref = "vpcIdRef" -> o.VPCID
      [] ref = "roleARNRef" -> o.RoleARN
      [] ref = "subnetIdRefs" -> o.SubnetIDs
      [] ref = "securityGroupIdRefs" -> o.SecurityGroupIDs
      [] ref = "clusterControlPlaneSecurityGroupRef" ->
            o.ClusterControlPlaneSecurityGroup

IsEmptyField(o, ref) ==
    IF ref \in ListRefs THEN FieldOf(o, ref) = <<>> ELSE FieldOf(o, ref) = ""

\* C25: Assign on a resource that is not an EKSCluster returns the
\* not-an-EKSCluster error and changes nothing; on an EKSCluster whose field
\* is empty it returns no error and leaves exactly the value in the field,
\* as a one-element list for a list field, and the other fields as they
\* were.
C25_AssignChecksKindAndFillsField ==
    last.kind = "Assign" =>
        /\ input.res # "EKSCluster" =>
                /\ last.err = errResourceIsNotEKSCluster
                /\ obj = last.before
        /\ (input.res = "EKSCluster" /\ IsEmptyField(last.before, input.ref)) =>
                /\ last.err = errNil
                /\ FieldOf(obj, input.ref) =
                        IF input.ref \in ListRefs THEN <<input.value>>
                        ELSE input.value
                /\ \A i \in DOMAIN RefOrder :
                        RefOrder[i] # input.ref =>
                            FieldOf(obj, RefOrder[i]) =
                                FieldOf(last.before, RefOrder[i])

C25_Witness ==
    /\ last.kind = "Assign"
    /\ input.res = "EKSCluster"
    /\ input.ref = "subnetIdRefs"
    /\ last.before.SubnetIDs = <<>>
    /\ obj.SubnetIDs = <<"mockValue">>

-----------------------------------------------------------------------------
\* The external client of the IAMRolePolicyAttachment controller as single
\* operations (pkg/controller/identity/iamrolepolicyattachment).  Under
\* SpecAttachment obj is the IAMRolePolicyAttachment handed to the
\* operation, input says whether the managed resource is one at all and
\* holds the provider client: the errors its requests are set to return and
\* the policies attached to the role.  last records the requests the
\* operation issued and what it returned.

ARNs == {"arn:A", "arn:B", "arn:C"}
mockRoleName == "mockRole"

errUnexpectedObject ==
    <<"The managed resource is not an IAMRolePolicyAttachment resource">>

\* IAMRolePolicyAttachment: Spec.RoleName, Spec.PolicyARN,
\* Status.AttachedPolicyARN and Status.Conditions.
NewAttachment(policy, attachedARN, conds) ==
    [RoleName |-> mockRoleName, PolicyARN |-> policy,
     AttachedPolicyARN |-> attachedARN, Conditions |-> conds]

\* awsiam.ErrCodeNoSuchEntityException
errNoSuchEntity == <<"NoSuchEntity">>

\* The fake client: whether each request fails, the error a failing detach
\* request returns, and the policies attached to the role.
Clients ==
    [attachErr : BOOLEAN, detachErr : BOOLEAN, listErr : BOOLEAN,
     detachCode : {errBoom("DetachRolePolicy"), errNoSuchEntity},
     attached : SUBSET ARNs]

\* client.AttachRolePolicyRequest(...).Send
AttachRolePolicy(client, role, arn) ==
    IF client.attachErr
    THEN [err |-> errBoom("AttachRolePolicy"), client |-> client]
    ELSE [err |-> errNil,
          client |-> [client EXCEPT !.attached = @ \cup {arn}]]

\* client.DetachRolePolicyRequest(...).Send
DetachRolePolicy(client, role, arn) ==
    IF client.detachErr
    THEN [err |-> client.detachCode, client |-> client]
    ELSE [err |-> errNil,
          client |-> [client EXCEPT !.attached = @ \ {arn}]]

\* client.ListAttachedRolePoliciesRequest(...).Send
ListAttachedRolePolicies(client, role) ==
    IF client.listErr
    THEN [err |-> errBoom("ListAttachedRolePolicies"), policies |-> {}]
    ELSE [err |-> errNil, policies |-> client.attached]

\* What an operation hands back: the resource, the client, the requests
\* issued in order, the error and ExternalObservation.ResourceExists.
Outcome(cr, client, calls, err, exists) ==
    [cr |-> cr, client |-> client, calls |-> calls, err |-> err,
     exists |-> exists]

Request(what, role, arn) == <<what, role, arn>>

\* An Observe that reports any attached policy as the resource.
Observe_anyPolicy(managed, cr, client) ==
    IF ~managed THEN Outcome(cr, client, <<>>, errUnexpectedObject, FALSE)
    ELSE
    LET l == ListAttachedRolePolicies(client, cr.RoleName)
        calls == <<Request("ListAttachedRolePolicies", cr.RoleName, "")>>
    IN  IF l.err # errNil
        THEN Outcome(cr, client, calls, Wrap(l.err, "errGet"), FALSE)
        ELSE IF l.policies = {}
        THEN Outcome(cr, client, calls, errNil, FALSE)
        ELSE Outcome([cr EXCEPT
                        !.Conditions = SetConditions(@, <<Available>>),
                        !.AttachedPolicyARN = cr.PolicyARN],
                     client, calls, errNil, TRUE)

\* external.Observe
Observe(managed, cr, client) ==
    IF ~managed THEN Outcome(cr, client, <<>>, errUnexpectedObject, FALSE)
    ELSE
    LET l == ListAttachedRolePolicies(client, cr.RoleName)
        calls == <<Request("ListAttachedRolePolicies", cr.RoleName, "")>>
    IN  IF l.err # errNil
        THEN Outcome(cr, client, calls, Wrap(l.err, "errGet"), FALSE)
        ELSE IF cr.PolicyARN \notin l.policies
        THEN Outcome(cr, client, calls, errNil, FALSE)
        ELSE Outcome([cr EXCEPT
                        !.Conditions = SetConditions(@, <<Available>>),
                        !.AttachedPolicyARN = cr.PolicyARN],
                     client, calls, errNil, TRUE)

\* A Create that attaches the policy recorded in the status.
Create_attachesStatusPolicy(managed, cr, client) ==
    IF ~managed THEN Outcome(cr, client, <<>>, errUnexpectedObject, FALSE)
    ELSE
    LET creating == [cr EXCEPT !.Conditions = SetConditions(@, <<Creating>>)]
        a == AttachRolePolicy(client, cr.RoleName, cr.AttachedPolicyARN)
    IN  Outcome(creating, a.client,
                <<Request("AttachRolePolicy", cr.RoleName,
                          cr.AttachedPolicyARN)>>,
                Wrap(a.err, "errAttach"), FALSE)

\* external.Create
Create(managed, cr, client) ==
    IF ~managed THEN Outcome(cr, client, <<>>, errUnexpectedObject, FALSE)
    ELSE
    LET creating == [cr EXCEPT !.Conditions = SetConditions(@, <<Creating>>)]
        a == AttachRolePolicy(client, cr.RoleName, cr.PolicyARN)
    IN  Outcome(creating, a.client,
                <<Request("AttachRolePolicy", cr.RoleName, cr.PolicyARN)>>,
                Wrap(a.err, "errAttach"), FALSE)

\* A detach step that detaches the desired policy.
detachPrevious_detachesDesired(cr, client, calls) ==
    LET d == DetachRolePolicy(client, cr.RoleName, cr.PolicyARN)
    IN  Outcome(cr, d.client,
                Append(calls, Request("DetachRolePolicy", cr.RoleName,
                                      cr.PolicyARN)),
                Wrap(d.err, "errDetach"), FALSE)

\* external.Update, the detach request for the policy of the status.
detachPrevious(cr, client, calls) ==
    LET d == DetachRolePolicy(client, cr.RoleName, cr.AttachedPolicyARN)
    IN  Outcome(cr, d.client,
                Append(calls, Request("DetachRolePolicy", cr.RoleName,
                                      cr.AttachedPolicyARN)),
                Wrap(d.err, "errDetach"), FALSE)

\* A replacement that goes on to detach after a failed attach.
replacePolicy_detachesAnyway(cr, client) ==
    LET a == AttachRolePolicy(client, cr.RoleName, cr.PolicyARN)
        calls == <<Request("AttachRolePolicy", cr.RoleName, cr.PolicyARN)>>
    IN  detachPrevious(cr, a.client, calls)

\* external.Update, the attach request and the return on its error.
replacePolicy(cr, client) ==
    LET a == AttachRolePolicy(client, cr.RoleName, cr.PolicyARN)
        calls == <<Request("AttachRolePolicy", cr.RoleName, cr.PolicyARN)>>
    IN  IF a.err # errNil
        THEN Outcome(cr, a.client, calls, Wrap(a.err, "errAttach"), FALSE)
        ELSE detachPrevious(cr, a.client, calls)

\* An Update that replaces the policy whenever the status names one.
Update_replacesEqual(managed, cr, client) ==
    IF ~managed THEN Outcome(cr, client, <<>>, errUnexpectedObject, FALSE)
    ELSE IF cr.AttachedPolicyARN = ""
    THEN Outcome(cr, client, <<>>, errNil, FALSE)
    ELSE replacePolicy(cr, client)

\* external.Update
Update(managed, cr, client) ==
    IF ~managed THEN Outcome(cr, client, <<>>, errUnexpectedObject, FALSE)
    ELSE IF cr.AttachedPolicyARN = ""
    THEN Outcome(cr, client, <<>>, errNil, FALSE)
    ELSE IF cr.AttachedPolicyARN = cr.PolicyARN
    THEN Outcome(cr, client, <<>>, errNil, FALSE)
    ELSE replacePolicy(cr, client)

\* iam.IsErrorNotFound
iamIsErrorNotFound(err) == err = errNoSuchEntity

\* A Delete that returns the error of a detach of an absent attachment.
Delete_failsOnAbsent(managed, cr, client) ==
    IF ~managed THEN Outcome(cr, client, <<>>, errUnexpectedObject, FALSE)
    ELSE
    LET deleting == [cr EXCEPT !.Conditions = SetConditions(@, <<Deleting>>)]
        d == DetachRolePolicy(client, cr.RoleName, cr.PolicyARN)
        calls == <<Request("DetachRolePolicy", cr.RoleName, cr.PolicyARN)>>
    IN  Outcome(deleting, d.client, calls, Wrap(d.err, "errDetach"), FALSE)

\* external.Delete
Delete(managed, cr, client) ==
    IF ~managed THEN Outcome(cr, client, <<>>, errUnexpectedObject, FALSE)
    ELSE
    LET deleting == [cr EXCEPT !.Conditions = SetConditions(@, <<Deleting>>)]
        d == DetachRolePolicy(client, cr.RoleName, cr.PolicyARN)
        calls == <<Request("DetachRolePolicy", cr.RoleName, cr.PolicyARN)>>
    IN  IF iamIsErrorNotFound(d.err)
        THEN Outcome(deleting, d.client, calls, errNil, FALSE)
        ELSE Outcome(deleting, d.client, calls, Wrap(d.err, "errDetach"),
                     FALSE)

AttachmentInputs ==
    {[kind |-> "iam", managed |-> m, client |-> c] :
        m \in BOOLEAN, c \in Clients}

InitAttachment ==
    /\ obj \in {NewAttachment(p, a, c) :
                    p \in {"arn:A", "arn:B"}, a \in ARNs \cup {""},
                    c \in {<<>>, <<Creating>>, <<Available>>}}
    /\ objExists = TRUE
    /\ cluster = "absent"
    /\ stack = "absent"
    /\ nClusters = 0
    /\ nStacks = 0
    /\ passes = [w \in Workers |-> Idle]
    /\ last = [kind |-> "none"]
    /\ input \in AttachmentInputs

\* One operation of the external client on obj with the client of input.
Operate(kind, r) ==
    /\ obj' = r.cr
    /\ input' = [input EXCEPT !.client = r.client]
    /\ last' = [kind |-> kind, calls |-> r.calls, err |-> r.err,
                exists |-> r.exists, before |-> obj, client |-> input.client]
    /\ UNCHANGED <<objExists, cluster, stack, nClusters, nStacks, passes>>

CallObserve ==
    /\ input.kind = "iam"
    /\ \E r \in {Observe(input.managed, obj, input.client)} :
            Operate("Observe", r)

CallCreate ==
    /\ input.kind = "iam"
    /\ \E r \in {Create(input.managed, obj, input.client)} :
            Operate("Create", r)

CallUpdate ==
    /\ input.kind = "iam"
    /\ \E r \in {Update(input.managed, obj, input.client)} :
            Operate("Update", r)

CallDelete ==
    /\ input.kind = "iam"
    /\ \E r \in {Delete(input.managed, obj, input.client)} :
            Operate("Delete", r)

NextAttachment ==
    \/ CallObserve
    \/ CallCreate
    \/ CallUpdate
    \/ CallDelete

SpecAttachment == InitAttachment /\ [][NextAttachment]_vars

\* Update on an IAMRolePolicyAttachment whose status names a policy other
\* than the desired one.
UpdateReplaces ==
    /\ last.kind = "Update"
    /\ input.managed
    /\ last.before.AttachedPolicyARN # ""
    /\ last.before.AttachedPolicyARN # last.before.PolicyARN

AttachRequest ==
    Request("AttachRolePolicy", last.before.RoleName, last.before.PolicyARN)

DetachRequest ==
    Request("DetachRolePolicy", last.before.RoleName,
            last.before.AttachedPolicyARN)

\* C26: when Status.AttachedPolicyARN is non-empty and differs from
\* Spec.PolicyARN, Update requests the attachment of Spec.PolicyARN and the
\* detachment of Status.AttachedPolicyARN and nothing else: with both
\* requests successful the role gains the one and loses the other, and every
\* other policy of the role is as it was.
C26_UpdateAttachesDesiredDetachesPrevious ==
    UpdateReplaces =>
        /\ last.calls \in {<<AttachRequest>>, <<AttachRequest, DetachRequest>>}
        /\ ~last.client.attachErr => last.calls = <<AttachRequest, DetachRequest>>
        /\ (~last.client.attachErr /\ ~last.client.detachErr) =>
                /\ last.err = errNil
                /\ input.client.attached =
                    (last.client.attached \cup {last.before.PolicyARN})
                        \ {last.before.AttachedPolicyARN}
        /\ obj = last.before

C26_Witness ==
    /\ UpdateReplaces
    /\ last.err = errNil
    /\ last.before.PolicyARN = "arn:B"
    /\ last.client.attached = {"arn:A", "arn:C"}
    /\ last.before.AttachedPolicyARN = "arn:C"
    /\ input.client.attached = {"arn:A", "arn:B"}

\* C27: when Status.AttachedPolicyARN is empty or equal to Spec.PolicyARN,
\* Update issues no request, returns no error and leaves the resource and
\* the role's policies as they were.
C27_UpdateWithoutDifferenceDoesNothing ==
    (/\ last.kind = "Update"
     /\ input.managed
     /\ last.before.AttachedPolicyARN \in {"", last.before.PolicyARN}) =>
        /\ last.calls = <<>>
        /\ last.err = errNil
        /\ input.client = last.client
        /\ obj = last.before

C27_Witness ==
    /\ last.kind = "Update"
    /\ input.managed
    /\ last.before.AttachedPolicyARN = last.before.PolicyARN
    /\ last.calls = <<>>
    /\ last.client.attachErr
    /\ last.err = errNil

\* C28: Update attaches before it detaches.  When the attach request fails
\* Update returns an error, issues no detach request and the role's
\* policies are as they were; when the attach succeeds and the detach fails
\* Update returns an error.
C28_UpdateAttachesBeforeDetaching ==
    UpdateReplaces =>
        /\ \A i, j \in DOMAIN last.calls :
                (last.calls[i][1] = "AttachRolePolicy"
                    /\ last.calls[j][1] = "DetachRolePolicy") => i < j
        /\ last.client.attachErr =>
                /\ last.err # errNil
                /\ \A i \in DOMAIN last.calls :
                        last.calls[i][1] # "DetachRolePolicy"
                /\ input.client.attached = last.client.attached
        /\ (~last.client.attachErr /\ last.client.detachErr) =>
                /\ last.err # errNil
                /\ Len(last.calls) = 2

C28_Witness ==
    /\ UpdateReplaces
    /\ last.client.attachErr
    /\ ~last.client.detachErr
    /\ last.before.AttachedPolicyARN \in last.client.attached
    /\ last.before.AttachedPolicyARN \in input.client.attached
    /\ last.err # errNil

\* C29: Observe on an IAMRolePolicyAttachment reports ResourceExists exactly
\* when the list request succeeded and the policies it lists contain
\* Spec.PolicyARN; it then returns no error, the Ready condition is True
\* with reason Available and Status.AttachedPolicyARN is Spec.PolicyARN.
\* When the list request fails it returns an error, when the policy is not
\* listed it returns none.  Observe changes nothing at the provider.
C29_ObserveReportsAttachedPolicy ==
    (last.kind = "Observe" /\ input.managed) =>
        /\ last.exists <=>
                (~last.client.listErr
                    /\ last.before.PolicyARN \in last.client.attached)
        /\ last.exists =>
                /\ last.err = errNil
                /\ \E i \in DOMAIN obj.Conditions :
                        /\ obj.Conditions[i].Type = TypeReady
                        /\ obj.Conditions[i].Status = "True"
                        /\ obj.Conditions[i].Reason = "Available"
                /\ obj.AttachedPolicyARN = last.before.PolicyARN
        /\ last.client.listErr => last.err # errNil
        /\ (~last.client.listErr /\ ~last.exists) => last.err = errNil
        /\ input.client = last.client

C29_Witness ==
    /\ last.kind = "Observe"
    /\ input.managed
    /\ last.exists
    /\ last.before.AttachedPolicyARN = "arn:C"
    /\ last.before.Conditions = <<Creating>>
    /\ obj.AttachedPolicyARN = "arn:B"
    /\ last.client.attached = {"arn:A", "arn:B"}

\* C30: Create on an IAMRolePolicyAttachment issues exactly one request, the
\* attachment of Spec.PolicyARN to Spec.RoleName.  When the request succeeds
\* Create returns no error and the conditions contain Ready False with
\* reason Creating; when it fails Create returns the error.
C30_CreateAttachesAndMarksCreating ==
    (last.kind = "Create" /\ input.managed) =>
        /\ last.calls = <<AttachRequest>>
        /\ ~last.client.attachErr =>
                /\ last.err = errNil
                /\ last.before.PolicyARN \in input.client.attached
                /\ \E i \in DOMAIN obj.Conditions :
                        /\ obj.Conditions[i].Type = TypeReady
                        /\ obj.Conditions[i].Status = "False"
                        /\ obj.Conditions[i].Reason = "Creating"
        /\ last.client.attachErr =>
                last.err = Wrap(errBoom("AttachRolePolicy"), "errAttach")

C30_Witness ==
    /\ last.kind = "Create"
    /\ input.managed
    /\ last.err = errNil
    /\ last.before.Conditions = <<Available>>
    /\ last.before.AttachedPolicyARN = "arn:C"
    /\ last.before.PolicyARN = "arn:A"
    /\ obj.Conditions = <<Creating>>
    /\ "arn:A" \notin last.client.attached

\* C31: Delete on an IAMRolePolicyAttachment issues exactly one request,
\* the detachment of Spec.PolicyARN from Spec.RoleName.  It returns no error
\* when the request succeeds or is answered NoSuchEntity and an error for
\* any other failure; whenever it returns no error the Ready condition is
\* False with reason Deleting.
C31_DeleteDetachesAndToleratesAbsent ==
    (last.kind = "Delete" /\ input.managed) =>
        /\ last.calls = << Request("DetachRolePolicy", last.before.RoleName,
                                   last.before.PolicyARN) >>
        /\ last.err = errNil <=>
                \/ ~last.client.detachErr
                \/ last.client.detachCode = errNoSuchEntity
        /\ last.err = errNil =>
                \E i \in DOMAIN obj.Conditions :
                    /\ obj.Conditions[i].Type = TypeReady
                    /\ obj.Conditions[i].Status = "False"
                    /\ obj.Conditions[i].Reason = "Deleting"
        /\ ~last.client.detachErr =>
                last.before.PolicyARN \notin input.client.attached

C31_Witness ==
    /\ last.kind = "Delete"
    /\ input.managed
    /\ last.client.detachErr
    /\ last.client.detachCode = errNoSuchEntity
    /\ last.err = errNil
    /\ last.before.Conditions = <<Available>>
    /\ obj.Conditions = <<Deleting>>

-----------------------------------------------------------------------------
\* Two EKSCluster objects.  Under SpecInstances obj, objExists and passes
\* are those of the object input.focus names, and cluster, stack, nClusters
\* and nStacks are the provider's objects under that object's cluster name.
\* input keeps the other object and the provider's objects under the other
\* names.  SwitchInstance hands the worker to the other object once its
\* pass has ended, whatever the state the provider's objects of the first
\* are in.  Targets are Ready and no call fails.

BlankObject ==
    [obj |-> NewEKSCluster({}, "Delete"), objExists |-> FALSE,
     passes |-> [w \in Workers |-> Idle]]

BlankProvider ==
    [cluster |-> "absent", stack |-> "absent", nClusters |-> 0, nStacks |-> 0]

ClusterNames == {ClusterNameOf(u) : u \in UIDs}

OtherUID(u) == CHOOSE v \in UIDs : v # u

InitInstances ==
    /\ obj = NewEKSCluster({}, "Delete")
    /\ objExists = TRUE
    /\ cluster = "absent"
    /\ stack = "absent"
    /\ nClusters = 0
    /\ nStacks = 0
    /\ passes = [w \in Workers |-> Idle]
    /\ last = NoPass
    /\ \E reclaim \in ReclaimPolicies :
        input = [kind |-> "instances", focus |-> "uid-1",
                 objects |->
                    [u \in UIDs |->
                        IF u = "uid-1" THEN BlankObject
                        ELSE [BlankObject EXCEPT
                                !.obj = NewEKSCluster({"vpcIdRef"}, reclaim),
                                !.objExists = TRUE]],
                 provider |-> [n \in ClusterNames |-> BlankProvider]]

\* The workers turn to the other object: what the variables hold is put
\* back under the UID and the cluster name of the object they leave, and
\* the other object and the provider's objects under its name are taken.
SwitchInstance ==
    /\ input.kind = "instances"
    /\ \A w \in Workers : passes[w].pc = "idle"
    /\ LET from == input.focus
           to == OtherUID(from)
           saved == [input.provider EXCEPT
                        ![ClusterNameOf(from)] =
                            [cluster |-> cluster, stack |-> stack,
                             nClusters |-> nClusters, nStacks |-> nStacks]]
           taken == saved[ClusterNameOf(to)]
       IN  /\ obj' = input.objects[to].obj
           /\ objExists' = input.objects[to].objExists
           /\ passes' = input.objects[to].passes
           /\ cluster' = taken.cluster
           /\ stack' = taken.stack
           /\ nClusters' = taken.nClusters
           /\ nStacks' = taken.nStacks
           /\ input' = [input EXCEPT
                          !.focus = to,
                          !.objects =
                            [u \in UIDs |->
                                IF u = from
                                THEN [obj |-> obj, objExists |-> objExists,
                                      passes |-> passes]
                                ELSE BlankObject],
                          !.provider =
                            [saved EXCEPT ![ClusterNameOf(to)] = BlankProvider]]
    /\ last' = NoPass

FetchFocused == input.kind = "instances" /\ Fetch("w1", {})

StepFocused ==
    /\ input.kind = "instances"
    /\ Step("w1", {}, [r \in passes["w1"].inst.refs |-> "Ready"])

WriteFocused == input.kind = "instances" /\ Write("w1", {})

NextInstances ==
    \/ SwitchInstance
    \/ FetchFocused
    \/ StepFocused
    \/ WriteFocused
    \/ RequestDeletion(FALSE)
    \/ ClusterProgress
    \/ StackProgress

SpecInstances == InitInstances /\ [][NextInstances]_vars

\* What there is of the object with UID u: the object, the passes on it and
\* the provider's objects under its cluster name.
View(u) ==
    IF u = input.focus
    THEN [obj |-> obj, objExists |-> objExists, passes |-> passes,
          cluster |-> cluster, stack |-> stack,
          nClusters |-> nClusters, nStacks |-> nStacks]
    ELSE LET p == IF ClusterNameOf(u) = ClusterNameOf(input.focus)
                  THEN [cluster |-> cluster, stack |-> stack,
                        nClusters |-> nClusters, nStacks |-> nStacks]
                  ELSE input.provider[ClusterNameOf(u)]
         IN  [obj |-> input.objects[u].obj,
              objExists |-> input.objects[u].objExists,
              passes |-> input.objects[u].passes,
              cluster |-> p.cluster, stack |-> p.stack,
              nClusters |-> p.nClusters, nStacks |-> p.nStacks]

\* C32: with two objects, a step of a pass on one of them, a change of the
\* provider's objects of one of them or its deletion leaves the other
\* object, the passes on it and its external objects as they were, and the
\* workers' turning from one object to the other changes neither; the
\* cluster name an object records is the one derived from its own UID.
C32_PassesOfDistinctInstancesAreIsolated ==
    /\ [][ input.kind = "instances" =>
            \A u \in UIDs :
                (u # input.focus \/ input'.focus # input.focus) =>
                    View(u)' = View(u) ]_vars
    /\ [](input.kind = "instances" =>
            \A u \in UIDs :
                View(u).obj.ClusterName \in {EmptyName, ClusterNameOf(u)})

C32_Witness ==
    /\ input.kind = "instances"
    /\ input.focus = "uid-2"
    /\ last.kind = "run"
    /\ last.branch = "delete"
    /\ obj.ClusterName = ClusterNameOf("uid-2")
    /\ cluster = "DELETING"
    /\ View("uid-1").obj.ClusterName = ClusterNameOf("uid-1")
    /\ IsConditionTrue(View("uid-1").obj.Conditions, TypeReady)
    /\ View("uid-1").cluster = ClusterStatusActive

-----------------------------------------------------------------------------
\* How often the last pass issued a call.
Count(name) == Cardinality({i \in DOMAIN last.calls : last.calls[i] = name})

\* C33: a pass requests the creation of the worker nodes only in the sync
\* branch, once, and only when the object it read records no stack ID.  When
\* the request succeeds the pass records the stack ID the provider returned,
\* ends in the status write and asks for a requeue after the short wait.  A
\* pass that read a stack ID requests no creation, and polls that stack once
\* it has seen the cluster ACTIVE.
C33_WorkersCreatedOnceThenPolled ==
    RanPass =>
        /\ Did("CreateWorkerNodes") =>
                /\ last.branch = "sync"
                /\ last.stackID0 = ""
                /\ Count("CreateWorkerNodes") = 1
                /\ ~Did("GetWorkerNodes")
        /\ (Did("CreateWorkerNodes") /\ "CreateWorkerNodes" \notin last.failed) =>
                /\ last.inst.CloudFormationStackID \in
                        {StackIDs[i] : i \in DOMAIN StackIDs}
                /\ StackStatusOf([nStacks |-> nStacks, stack |-> stack],
                                 last.inst.CloudFormationStackID) # "absent"
                /\ last.update
                /\ last.result = Result(FALSE, aShortWait)
                /\ last.wrote => obj.CloudFormationStackID =
                                    last.inst.CloudFormationStackID
        /\ last.stackID0 # "" =>
                /\ ~Did("CreateWorkerNodes")
                /\ (last.branch = "sync" /\ last.seenCluster = ClusterStatusActive)
                        => Did("GetWorkerNodes")
                /\ last.inst.CloudFormationStackID = last.stackID0

C33_Witness ==
    /\ RanPass
    /\ last.stackID0 # ""
    /\ Did("GetWorkerNodes")
    /\ last.seenStack = "CREATE_IN_PROGRESS"
    /\ obj.CloudFormationStackID = last.stackID0

-----------------------------------------------------------------------------
\* The last pass read the status of the worker stack.
SawStack ==
    /\ RanPass
    /\ last.branch = "sync"
    /\ Did("GetWorkerNodes")
    /\ "GetWorkerNodes" \notin last.failed

\* C34: a sync pass that reads the worker stack in one of the states
\* CREATE_FAILED, ROLLBACK_COMPLETE, ROLLBACK_FAILED, DELETE_COMPLETE or
\* DELETE_FAILED sets a ReconcileError whose message names the status and the
\* reason, runs neither the aws-auth step nor the publication, does not set
\* Available and ends in the status write with a requeue after the short
\* wait.  When the state is none of these and neither CREATE_COMPLETE nor
\* UPDATE_COMPLETE, the pass sets ReconcileSuccess and nothing else, stops
\* after the read and ends in the status write with a requeue after the
\* short wait.
C34_FailedStackFailsPendingStackWaits ==
    SawStack =>
        /\ last.seenStack \in {"CREATE_FAILED", "ROLLBACK_COMPLETE",
                               "ROLLBACK_FAILED", "DELETE_COMPLETE",
                               "DELETE_FAILED"} =>
                /\ last.set = <<"ReconcileError">>
                /\ Mentions(SyncedMessage, last.seenStack)
                /\ Mentions(SyncedMessage, WorkerReason(last.seenStack))
                /\ ~Did("awsauth") /\ ~Did("secret")
                /\ last.update
                /\ last.result = Result(FALSE, aShortWait)
        /\ last.seenStack \notin {"CREATE_FAILED", "ROLLBACK_COMPLETE",
                                  "ROLLBACK_FAILED", "DELETE_COMPLETE",
                                  "DELETE_FAILED", "CREATE_COMPLETE",
                                  "UPDATE_COMPLETE"} =>
                /\ last.set = <<"ReconcileSuccess">>
                /\ ~Did("awsauth") /\ ~Did("secret")
                /\ last.calls[Len(last.calls)] = "GetWorkerNodes"
                /\ last.update
                /\ last.result = Result(FALSE, aShortWait)

C34_Witness ==
    /\ SawStack
    /\ last.seenStack = "ROLLBACK_COMPLETE"
    /\ last.wrote
    /\ \E i \in DOMAIN obj.Conditions :
            /\ obj.Conditions[i].Reason = "ReconcileError"
            /\ Mentions(obj.Conditions[i].Message, "ROLLBACK_COMPLETE")

-----------------------------------------------------------------------------
\* generateAWSAuthConfigMap as a single operation.  Under SpecAuthMap obj is
\* the part of the EKSCluster spec the function reads, Spec.MapRoles and
\* Spec.MapUsers, input holds the worker ARN and last the config map
\* returned.

MaxRoles == 2       \* length of Spec.MapRoles and of Spec.MapUsers

eksAuthConfigMapName == "aws-auth"
eksAuthMapRolesKey == "mapRoles"
eksAuthMapUsersKey == "mapUsers"

MapRole(arn, username, groups) ==
    [RoleARN |-> arn, Username |-> username, Groups |-> groups]

MapUser(arn, username, groups) ==
    [UserARN |-> arn, Username |-> username, Groups |-> groups]

SpecRoles ==
    {MapRole("arn:role/admin", "admin", <<"system:masters">>),
     MapRole("arn:role/dev", "dev", <<>>)}

SpecUsers ==
    {MapUser("arn:user/ann", "ann", <<"system:masters">>),
     MapUser("arn:user/bob", "bob", <<"view", "edit">>)}

SeqsUpTo(S, n) == UNION {[1..k -> S] : k \in 0..n}

\* yaml.Marshal of a list of roles or of users: one entry per element, in
\* order, each with its keys and values.
MarshalRoles(roles) ==
    [i \in DOMAIN roles |->
        <<"rolearn", roles[i].RoleARN, "username", roles[i].Username,
          "groups", roles[i].Groups>>]

MarshalUsers(users) ==
    [i \in DOMAIN users |->
        <<"userarn", users[i].UserARN, "username", users[i].Username,
          "groups", users[i].Groups>>]

\* A generation that puts the default role first.
generateAWSAuthConfigMap_defaultFirst(instance, workerARN) ==
    LET defaultRole == MapRole(workerARN, "system:node:{{EC2PrivateDNSName}}",
                               <<"system:bootstrappers", "system:nodes">>)
        roles == <<defaultRole>> \o instance.MapRoles
        data == (eksAuthMapRolesKey :> MarshalRoles(roles))
    IN  [cm |-> [Name |-> eksAuthConfigMapName, Namespace |-> "kube-system",
                 Data |-> data],
         err |-> errNil, instance |-> instance]

\* generateAWSAuthConfigMap: the config map, the error and the instance as
\* the function leaves it.
generateAWSAuthConfigMap(instance, workerARN) ==
    LET defaultRole == MapRole(workerARN, "system:node:{{EC2PrivateDNSName}}",
                               <<"system:bootstrappers", "system:nodes">>)
        \* make, copy, append: roles is a slice of its own
        roles == Append(instance.MapRoles, defaultRole)
        data0 == (eksAuthMapRolesKey :> MarshalRoles(roles))
        data == IF Len(instance.MapUsers) > 0
                THEN data0 @@
                     (eksAuthMapUsersKey :> MarshalUsers(instance.MapUsers))
                ELSE data0
    IN  [cm |-> [Name |-> eksAuthConfigMapName, Namespace |-> "kube-system",
                 Data |-> data],
         err |-> errNil, instance |-> instance]

InitAuthMap ==
    /\ obj \in [MapRoles : SeqsUpTo(SpecRoles, MaxRoles),
                MapUsers : SeqsUpTo(SpecUsers, MaxRoles)]
    /\ objExists = TRUE
    /\ cluster = "absent"
    /\ stack = "absent"
    /\ nClusters = 0
    /\ nStacks = 0
    /\ passes = [w \in Workers |-> Idle]
    /\ last = [kind |-> "none"]
    /\ input \in {[kind |-> "authmap", workerARN |-> a] :
                    a \in {"arn:role/workers-1", "arn:role/workers-2"}}

CallGenerateAWSAuthConfigMap ==
    /\ input.kind = "authmap"
    /\ \E g \in {generateAWSAuthConfigMap(obj, input.workerARN)} :
        /\ obj' = g.instance
        /\ last' = [kind |-> "generate", cm |-> g.cm, err |-> g.err,
                    before |-> obj]
    /\ UNCHANGED <<objExists, cluster, stack, nClusters, nStacks, passes,
                   input>>

NextAuthMap == CallGenerateAWSAuthConfigMap

SpecAuthMap == InitAuthMap /\ [][NextAuthMap]_vars

\* C35: the config map generated for the aws-auth step lists under mapRoles
\* the roles of Spec.MapRoles in their order, followed by one role for the
\* worker ARN with username system:node:{{EC2PrivateDNSName}} and groups
\* system:bootstrappers and system:nodes; it has the key mapUsers exactly
\* when Spec.MapUsers is not empty, then with the users in their order; and
\* the generation leaves Spec.MapRoles and Spec.MapUsers as they were.
C35_AuthMapListsRolesThenDefault ==
    last.kind = "generate" =>
        LET data == last.cm.Data
            roles == data["mapRoles"]
            n == Len(last.before.MapRoles)
        IN  /\ last.err = errNil
            /\ "mapRoles" \in DOMAIN data
            /\ Len(roles) = n + 1
            /\ \A i \in 1..n :
                    /\ roles[i][2] = last.before.MapRoles[i].RoleARN
                    /\ roles[i][4] = last.before.MapRoles[i].Username
                    /\ roles[i][6] = last.before.MapRoles[i].Groups
            /\ roles[n + 1][2] = input.workerARN
            /\ roles[n + 1][4] = "system:node:{{EC2PrivateDNSName}}"
            /\ roles[n + 1][6] = <<"system:bootstrappers", "system:nodes">>
            /\ "mapUsers" \in DOMAIN data <=> Len(last.before.MapUsers) > 0
            /\ "mapUsers" \in DOMAIN data =>
                    /\ Len(data["mapUsers"]) = Len(last.before.MapUsers)
                    /\ \A i \in DOMAIN data["mapUsers"] :
                            data["mapUsers"][i][2] =
                                last.before.MapUsers[i].UserARN
            /\ DOMAIN data \subseteq {"mapRoles", "mapUsers"}
            /\ obj = last.before

C35_Witness ==
    /\ last.kind = "generate"
    /\ Len(last.before.MapRoles) = 2
    /\ last.before.MapRoles[1].Username = "dev"
    /\ last.before.MapRoles[2].Username = "admin"
    /\ last.before.MapUsers = <<>>
    /\ DOMAIN last.cm.Data = {"mapRoles"}
    /\ Len(last.cm.Data["mapRoles"]) = 3

-----------------------------------------------------------------------------
\* C36 as stated: every creation a pass requests is of the cluster named by
\* the prefix eks- and the UID of the object, and a pass enters the create
\* branch only when the object as persisted records no cluster name.
C36_CreateOnlyWhilePersistedNameEmpty ==
    /\ [](RanPass =>
            /\ Did("Create") => last.createName = <<"eks-", UID>>
            /\ Did("Create") <=> last.branch = "create")
    /\ [][ (last'.kind = "run" /\ last'.branch = "create") =>
                obj.ClusterName = EmptyName ]_vars

\* C36, amended: every creation a pass requests is of the cluster named by
\* the prefix eks- and the UID of the object, whatever failed or was lost
\* before, and a pass enters the create branch only when the copy of the
\* object it read records no cluster name; the object as persisted may
\* record one by then.
C36_CreateOnlyWhileReadNameEmpty ==
    RanPass =>
        /\ Did("Create") => last.createName = <<"eks-", UID>>
        /\ Did("Create") <=> last.branch = "create"
        /\ last.branch = "create" => last.clusterName0 = EmptyName
        /\ last.inst.ClusterName \in {EmptyName, <<"eks-", UID>>}

C36_Witness ==
    /\ RanPass
    /\ last.branch = "create"
    /\ last.clusterName0 = EmptyName
    /\ "Create" \notin last.failed
    /\ last.createErr = errAlreadyExists
    /\ ~last.wrote
    /\ obj.ClusterName = <<"eks-", UID>>
    /\ nClusters = 1

-----------------------------------------------------------------------------
\* The object records an external object.
Recorded(o) == o.ClusterName # EmptyName \/ o.CloudFormationStackID # ""

\* C37: a persisted object that records a cluster name or a stack ID and
\* whose deletion was not requested carries the controller's finalizer; the
\* finalizer leaves the persisted object only by the write of a delete pass;
\* and an object that records an external object is removed from the API
\* server only after such a write.
C37_RecordedResourceKeepsFinalizer ==
    /\ []((objExists /\ Recorded(obj) /\ ~obj.DeletionTimestamp) =>
            finalizer \in obj.Finalizers)
    /\ [][ (finalizer \in obj.Finalizers /\ finalizer \notin obj'.Finalizers) =>
                /\ last'.kind = "run"
                /\ last'.branch = "delete"
                /\ last'.wrote ]_vars
    /\ [][ (objExists /\ ~objExists' /\ Recorded(obj)) =>
                finalizer \notin obj'.Finalizers ]_vars
    /\ [][ (~Recorded(obj) /\ Recorded(obj')) =>
                finalizer \in obj'.Finalizers ]_vars

C37_Witness ==
    /\ ~objExists
    /\ RanPass
    /\ last.branch = "delete"
    /\ last.wrote
    /\ obj.ClusterName # EmptyName
    /\ obj.CloudFormationStackID # ""
    /\ finalizer \notin obj.Finalizers
    /\ Did("DeleteWorkerNodes")

-----------------------------------------------------------------------------
\* C38: once the persisted object records a cluster name, every later step
\* leaves that name on it, and likewise the stack ID; and a pass that read a
\* cluster name or a stack ID leaves it on its instance, whatever branch it
\* takes.
C38_IdentifiersAreWriteOnce ==
    /\ [][ /\ obj.ClusterName # EmptyName => obj'.ClusterName = obj.ClusterName
           /\ obj.CloudFormationStackID # "" =>
                obj'.CloudFormationStackID = obj.CloudFormationStackID ]_vars
    /\ [](RanPass =>
            /\ last.clusterName0 # EmptyName =>
                    last.inst.ClusterName = last.clusterName0
            /\ last.stackID0 # "" =>
                    last.inst.CloudFormationStackID = last.stackID0)

C38_Witness ==
    /\ RanPass
    /\ last.branch = "delete"
    /\ last.clusterName0 # EmptyName
    /\ last.stackID0 # ""
    /\ last.wrote
    /\ Did("DeleteWorkerNodes")
    /\ "DeleteWorkerNodes" \notin last.failed
    /\ "Delete" \in last.failed
    /\ obj.CloudFormationStackID = last.stackID0
    /\ obj.ClusterName = last.clusterName0

-----------------------------------------------------------------------------
\* The last pass took the delete branch on an object whose reclaim policy is
\* not Delete.
RetainingDelete ==
    /\ RanPass
    /\ last.branch = "delete"
    /\ last.inst.ReclaimPolicy # "Delete"

\* C39: a delete pass on an object whose reclaim policy is not Delete
\* requests neither the deletion of the cluster nor that of the worker
\* stack nor any other provider call, removes the finalizer, sets Deleting
\* and ReconcileSuccess, ends in the status write and asks for no requeue; the
\* provider's cluster and worker stack are after the pass what they were
\* before.
C39_RetainedResourceIsNotDeleted ==
    /\ [](RetainingDelete =>
            /\ ~Did("Delete") /\ ~Did("DeleteWorkerNodes")
            /\ \A i \in DOMAIN last.calls :
                    last.calls[i] \notin ProvisioningCalls
            /\ finalizer \notin last.inst.Finalizers
            /\ SetReason("Deleting") /\ SetReason("ReconcileSuccess")
            /\ ~SetReason("ReconcileError")
            /\ last.failed = {}
            /\ last.update
            /\ last.result = Result(FALSE, 0)
            /\ last.wrote => finalizer \notin obj.Finalizers)
    /\ [][ RetainingDelete' =>
            /\ cluster' = cluster
            /\ stack' = stack
            /\ nClusters' = nClusters
            /\ nStacks' = nStacks ]_vars

C39_Witness ==
    /\ RetainingDelete
    /\ last.wrote
    /\ ~objExists
    /\ obj.ClusterName # EmptyName
    /\ obj.CloudFormationStackID # ""
    /\ cluster = ClusterStatusActive
    /\ stack = "CREATE_COMPLETE"

-----------------------------------------------------------------------------
\* Progress.  Under SpecLive the object has the references roleARNRef and
\* vpcIdRef, whose Assign overwrites its field, so that a repeated resolution
\* leaves the object within the bounds; nobody deletes it, the provider
\* brings the cluster to ACTIVE and the worker stack to
\* CREATE_COMPLETE, and the environment makes calls and writes fail and
\* targets not Ready only while input.failing holds.  Passes keep coming:
\* each pass asks for a requeue or changes the object, which queues it again.

InitLive ==
    /\ obj = NewEKSCluster({"roleARNRef", "vpcIdRef"}, "Delete")
    /\ objExists = TRUE
    /\ cluster = "absent"
    /\ stack = "absent"
    /\ nClusters = 0
    /\ nStacks = 0
    /\ passes = [w \in Workers |-> Idle]
    /\ last = NoPass
    /\ input = [kind |-> "live", failing |-> TRUE]

\* A step of a pass while failures and unready targets are possible: the
\* read of the object fails, or any request of the pass fails or succeeds.
FailingStep ==
    /\ input.kind = "live" /\ input.failing
    /\ (EndAtFetch \/ FetchObject \/ StepPass \/ WriteStatus)

\* A step of a pass in which no call fails and every target is Ready.
CleanStep ==
    /\ input.kind = "live"
    /\ \/ Fetch("w1", {})
       \/ Step("w1", {}, [r \in passes["w1"].inst.refs |-> "Ready"])
       \/ Write("w1", {})

\* From now on nothing fails and the targets are Ready.
StopFailing ==
    /\ input.kind = "live" /\ input.failing
    /\ input' = [input EXCEPT !.failing = FALSE]
    /\ UNCHANGED <<obj, objExists, cluster, stack, nClusters, nStacks, passes,
                   last>>

ClusterBecomesActive ==
    /\ input.kind = "live"
    /\ cluster = ClusterStatusCreating
    /\ cluster' = ClusterStatusActive
    /\ last' = NoPass
    /\ UNCHANGED <<obj, objExists, stack, nClusters, nStacks, passes, input>>

StackCompletes ==
    /\ input.kind = "live"
    /\ stack = "CREATE_IN_PROGRESS"
    /\ stack' = "CREATE_COMPLETE"
    /\ last' = NoPass
    /\ UNCHANGED <<obj, objExists, cluster, nClusters, nStacks, passes, input>>

NextLive ==
    \/ FailingStep
    \/ CleanStep
    \/ StopFailing
    \/ ClusterBecomesActive
    \/ StackCompletes

SpecLive ==
    /\ InitLive
    /\ [][NextLive]_vars
    /\ WF_vars(CleanStep)
    /\ WF_vars(StopFailing)
    /\ WF_vars(ClusterBecomesActive)
    /\ WF_vars(StackCompletes)

\* The persisted object is available.
PersistedAvailable ==
    /\ objExists
    /\ \E i \in DOMAIN obj.Conditions : obj.Conditions[i] = Available
    /\ obj.State = ClusterStatusActive
    /\ obj.Endpoint # ""

\* C40: with passes that keep coming, references that resolve, a provider
\* that brings the cluster to ACTIVE and the worker stack to a completed
\* state, and calls and writes that stop failing, the persisted object
\* becomes Ready (Available) with State ACTIVE and an Endpoint and stays so,
\* and from then on every pass asks for a requeue after the long wait.
C40_EventuallyAvailable ==
    <>[](/\ PersistedAvailable
         /\ RanPass => last.result = Result(FALSE, aLongWait))

====
